---- MODULE Spec2Model ----
(***************************************************************************)
(* Session/thread synchronisation core of the OpenDiscord bridge.          *)
(*                                                                         *)
(* The model covers the process-wide maps of the bridge (registry, ledger, *)
(* provenance set), the global event consumer, the deferred idle handler   *)
(* with every suspension point (await) as a separate step, the forwarding  *)
(* of thread replies, and the chat-side creation of sessions.  The AI      *)
(* backend and the chat platform are the environment: their calls resolve  *)
(* or fail nondeterministically.                                           *)
(*                                                                         *)
(* A text is a sequence of one-character strings, so that trimming and     *)
(* slicing are computed as the code computes them.                         *)
(*                                                                         *)
(* Environment:                                                            *)
(*  - the backend appends a prompt and its response to a session in one    *)
(*    step, and a fetch of the messages reads the list as it is when the   *)
(*    fetch resolves; the messages of a deleted session cannot be fetched; *)
(*  - the feed may deliver a status event of any session the backend       *)
(*    knows at any time and any number of times, and a deletion event of   *)
(*    any deleted session;                                                 *)
(*  - a session created from the chat side is marked in the continuation   *)
(*    that receives its id: ChatCreate takes creation and marking as one   *)
(*    step, SpecChat takes them apart;                                     *)
(*  - every call to the backend or to the chat platform may fail.          *)
(*                                                                         *)
(*  - a model menu is stored within the minute it is shown, and a due      *)
(*    deletion timer runs before the clock goes on.                        *)
(*                                                                         *)
(*  - after the first user is written into the allowlist the process      *)
(*    exits and is started again with empty maps.                          *)
(*                                                                         *)
(* Spec is the mirror core over all sessions.  SpecLive, SpecReply,        *)
(* SpecForward, SpecLate, SpecChat, SpecSync and SpecBind take the same    *)
(* actions for one scenario each; their state spaces are kept apart        *)
(* because the product does not fit one run.  SpecSync has the two webhook *)
(* endpoints next to the consumer, SpecBind every entry point that binds a *)
(* thread.  SpecGate is messageCreate from its first line, for authors of  *)
(* every kind.  SpecFeed counts the subscriptions to the event feed.       *)
(* SpecPage and SpecMenu are the model selection menus.  SpecLazy runs the *)
(* idle handler over given message lists.  SpecLoop steps through the loop *)
(* of the splitter.  SpecDedup, SpecExchange, SpecSplit and SpecPost apply *)
(* one function of the bridge to inputs drawn by their initial predicate.  *)
(***************************************************************************)
EXTENDS Integers, Sequences, FiniteSets, TLC

(***************************************************************************)
(* Bounds of the model.                                                    *)
(***************************************************************************)
MaxTasks   == 2     \* handlers (idle mirrors, forwards, chat commands) in flight
MaxThreads == 2     \* threads the chat platform creates
MaxPrompts == 1     \* exchanges the backend appends, over all sessions
MaxCopies  == 2     \* copies of one unit posted into one thread
MaxMessages == 4    \* messages of a session the extractor is applied to
MaxModels  == 47    \* models the providers of the backend report
MaxInteractions == 3  \* /models commands and page clicks delivered
MaxMenus   == 2     \* /models commands delivered while selections are made
MaxTime    == 11    \* minutes the clock runs
MaxLen     == 5     \* characters of a text the splitter is applied to
MaxLimit   == 4     \* largest maxLength the splitter is applied with
MaxRetries == 6     \* retry timers the subscription sets
MaxEvents  == 4     \* events the feed delivers while subscriptions are counted
MaxPosts   == 1     \* copies of one unit the message endpoint posts into one thread
MaxHandlers == 1    \* messageCreate handlers in flight when authors of every kind write

maxButtons    == 20   \* model buttons of the first page
pageSize      == 20   \* model buttons of a later page
buttonsPerRow == 5
ExpiryMinutes == 10   \* 10 * 60 * 1000 ms

Sessions  == {"s1", "s2"}
Users     == {"alice"}
UserTexts == {<<"u">>, <<"v">>}
AsstTexts == {<<"a">>}

None  == "none"
BadId == "#5"       \* a truthy sessionID that is not a string (no .slice)

Whitespace == {" ", "\n", "\t"}

VARIABLES
    consumer,                  \* position of startGlobalEventSubscription
    sessionToThread,           \* Map sessionId -> threadId
    threadToSession,           \* Map threadId -> sessionId
    subscribedThreads,         \* Set of thread ids
    lastPostedContent,         \* Map sessionId -> {userContent, assistantContent}
    discordInitiatedSessions,  \* Set of sessionIds
    userSessions,              \* Map userId -> sessionId
    backend,                   \* AI backend: sessionId -> [status, messages]
    posts,                     \* chat platform: threadId -> units posted
    tasks,                     \* async handlers in flight
    probe,                     \* input and result of a function applied in isolation
    responses,                 \* successful answers of POST /sync/session
    modelButtonMaps,           \* Map interactionId -> (Map index -> model), in insertion order
    userModels,                \* Map userId -> model id
    menus,                     \* chat platform: the menu messages shown
    now,                       \* minutes since the start
    available,                 \* AI backend: the models of its providers
    interactions               \* chat platform: interactions delivered so far

vars == <<consumer, sessionToThread, threadToSession, subscribedThreads,
          lastPostedContent, discordInitiatedSessions, userSessions,
          backend, posts, tasks, probe, responses, modelButtonMaps,
          userModels, menus, now, available, interactions>>

selection == <<modelButtonMaps, userModels, menus, now, available, interactions>>

registry == <<sessionToThread, threadToSession, subscribedThreads>>

(***************************************************************************)
(* Map helpers (JavaScript Map.set / Map.delete).                          *)
(***************************************************************************)
MapSet(m, k, v) == [x \in DOMAIN m \cup {k} |-> IF x = k THEN v ELSE m[x]]

MapDelete(m, k) == [x \in DOMAIN m \ {k} |-> m[x]]

EmptyMap == [x \in {} |-> None]

(***************************************************************************)
(* Exchange extractor.                                                     *)
(***************************************************************************)
RECURSIVE concatTextParts(_)
concatTextParts(parts) ==
    IF parts = <<>> THEN <<>>
    ELSE (IF Head(parts).type = "text" THEN Head(parts).text ELSE <<>>)
         \o concatTextParts(Tail(parts))

RECURSIVE trimStart(_)
trimStart(text) ==
    IF text # <<>> /\ Head(text) \in Whitespace THEN trimStart(Tail(text))
    ELSE text

RECURSIVE trimEnd(_)
trimEnd(text) ==
    IF text # <<>> /\ text[Len(text)] \in Whitespace
    THEN trimEnd(SubSeq(text, 1, Len(text) - 1))
    ELSE text

trim(text) == trimEnd(trimStart(text))

extractMessageContent(message) ==
    IF Len(message.parts) = 0 THEN <<>>
    ELSE trim(concatTextParts(message.parts))

\* The backward scan of getLatestExchange; index 0 stands for the code's -1.
RECURSIVE scanExchange(_, _, _)
scanExchange(messages, i, lastAssistantIdx) ==
    IF i = 0 THEN [lastUserIdx |-> 0, lastAssistantIdx |-> lastAssistantIdx]
    ELSE LET role == messages[i].role
             aIdx == IF role = "assistant" /\ lastAssistantIdx = 0
                     THEN i ELSE lastAssistantIdx
         IN  IF role = "user" /\ aIdx # 0
             THEN [lastUserIdx |-> i, lastAssistantIdx |-> aIdx]
             ELSE scanExchange(messages, i - 1, aIdx)

Max(S) == CHOOSE x \in S : \A y \in S : y <= x

\* Variant: the last user message is taken wherever it stands.
getLatestExchangeAnyUser(messages) ==
    LET users      == {i \in 1..Len(messages) : messages[i].role = "user"}
        assistants == {i \in 1..Len(messages) : messages[i].role = "assistant"}
    IN  IF users = {} \/ assistants = {}
        THEN [found |-> FALSE]
        ELSE [found |-> TRUE,
              userMessage |-> messages[Max(users)],
              assistantMessage |-> messages[Max(assistants)]]

getLatestExchange(messages) ==
    LET r == scanExchange(messages, Len(messages), 0)
    IN  IF r.lastUserIdx = 0 \/ r.lastAssistantIdx = 0
        THEN [found |-> FALSE]
        ELSE [found |-> TRUE,
              userMessage |-> messages[r.lastUserIdx],
              assistantMessage |-> messages[r.lastAssistantIdx]]

(***************************************************************************)
(* Deduplication ledger.                                                   *)
(***************************************************************************)
\* Variant: the comparison of the user text is missing.
alreadyPostedAssistantOnly(ledger, sessionId, userContent, assistantContent) ==
    /\ sessionId \in DOMAIN ledger
    /\ ledger[sessionId].assistantContent = assistantContent

\* Variant: nothing is ever suppressed.
alreadyPostedNever(ledger, sessionId, userContent, assistantContent) == FALSE

\* TRUE when the exchange is suppressed (the early return of the handler).
alreadyPosted(ledger, sessionId, userContent, assistantContent) ==
    /\ sessionId \in DOMAIN ledger
    /\ ledger[sessionId].userContent = userContent
    /\ ledger[sessionId].assistantContent = assistantContent

recordPosted(ledger, sessionId, userContent, assistantContent) ==
    MapSet(ledger, sessionId,
           [userContent |-> userContent, assistantContent |-> assistantContent])

(***************************************************************************)
(* Environment: the AI backend.                                            *)
(***************************************************************************)
TextMessage(role, text) ==
    [role |-> role, parts |-> <<[type |-> "text", text |-> text]>>]

RECURSIVE totalMessages(_)
totalMessages(S) ==
    IF S = {} THEN 0
    ELSE LET s == CHOOSE x \in S : TRUE
         IN  Len(backend[s].messages) + totalMessages(S \ {s})

CanPrompt == totalMessages(Sessions) + 2 <= 2 * MaxPrompts

appendExchange(b, s, u, a) ==
    [b EXCEPT ![s].messages =
        @ \o <<TextMessage("user", u), TextMessage("assistant", a)>>]

(***************************************************************************)
(* Handlers in flight.                                                     *)
(***************************************************************************)
FreeTask == [kind |-> "free", pc |-> "", sid |-> None, thread |-> 0,
             user |-> <<>>, asst |-> <<>>, n |-> 0, userId |-> None]

IsAt(i, kind, pc) == tasks[i].kind = kind /\ tasks[i].pc = pc

Finish(i) == tasks' = [tasks EXCEPT ![i] = FreeTask]

HasFreeTask == \E i \in 1..MaxTasks : tasks[i].kind = "free"

FreeSlot == CHOOSE i \in 1..MaxTasks :
                /\ tasks[i].kind = "free"
                /\ \A j \in 1..(i - 1) : tasks[j].kind # "free"

\* A unit posted into a thread: the role label and the text, and for the
\* record which handler sent it (via) and for which exchange (n, the length
\* of the session's message list the text was taken from).
Unit(label, text, via, n) ==
    [label |-> label, text |-> text, via |-> via, n |-> n]

\* A thread's content is the bag of its units.
copies(t, unit) == IF unit \in DOMAIN posts[t] THEN posts[t][unit] ELSE 0

CanSend(t, unit) == t \in DOMAIN posts /\ copies(t, unit) < MaxCopies

send(t, unit) == [posts EXCEPT ![t] = MapSet(@, unit, copies(t, unit) + 1)]

Init ==
    /\ consumer = "NotStarted"
    /\ sessionToThread = EmptyMap
    /\ threadToSession = EmptyMap
    /\ subscribedThreads = {}
    /\ lastPostedContent = EmptyMap
    /\ discordInitiatedSessions = {}
    /\ userSessions = EmptyMap
    /\ backend = [s \in Sessions |-> [status |-> "none", messages |-> <<>>]]
    /\ posts = EmptyMap
    /\ tasks = [i \in 1..MaxTasks |-> FreeTask]
    /\ probe = [asked |-> FALSE]
    /\ responses = {}
    /\ modelButtonMaps = <<>>
    /\ userModels = EmptyMap
    /\ menus = EmptyMap
    /\ now = 0
    /\ available = <<>>
    /\ interactions = 0

(***************************************************************************)
(* Environment actions.                                                    *)
(***************************************************************************)
\* A session is created on the terminal side.
TerminalCreate(s) ==
    /\ backend[s].status = "none"
    /\ backend' = [backend EXCEPT ![s].status = "live"]
    /\ UNCHANGED <<consumer, registry, lastPostedContent,
                   discordInitiatedSessions, userSessions, posts, tasks, probe,
                   responses, selection>>

\* The backend completes a prompt of a live session (terminal or chat side).
BackendPrompt(s, u, a) ==
    /\ backend[s].status = "live"
    /\ CanPrompt
    /\ backend' = appendExchange(backend, s, u, a)
    /\ UNCHANGED <<consumer, registry, lastPostedContent,
                   discordInitiatedSessions, userSessions, posts, tasks, probe,
                   responses, selection>>

\* The backend deletes a session.
BackendDelete(s) ==
    /\ backend[s].status = "live"
    /\ backend' = [backend EXCEPT ![s].status = "deleted"]
    /\ UNCHANGED <<consumer, registry, lastPostedContent,
                   discordInitiatedSessions, userSessions, posts, tasks, probe,
                   responses, selection>>

(***************************************************************************)
(* Chat side: /new and the first direct message of a user.                 *)
(***************************************************************************)
ChatCreate(userId, s) ==
    /\ backend[s].status = "none"
    /\ backend' = [backend EXCEPT ![s].status = "live"]
    /\ userSessions' = MapSet(userSessions, userId, s)
    /\ discordInitiatedSessions' = discordInitiatedSessions \cup {s}
    /\ UNCHANGED <<consumer, registry, lastPostedContent, posts, tasks, probe,
                   responses, selection>>

(***************************************************************************)
(* Chat side, one action per suspension point: handleNewCommand and the    *)
(* direct-message branch of messageCreate with handleTextMessage.          *)
(***************************************************************************)
\* Variant: the new session is not marked.
rememberSessionUnmarked(userId, sessionId) ==
    /\ userSessions' = MapSet(userSessions, userId, sessionId)
    /\ discordInitiatedSessions' = discordInitiatedSessions

\* Variant: the mark of the user's previous session is dropped.
rememberSessionReplacing(userId, sessionId) ==
    /\ userSessions' = MapSet(userSessions, userId, sessionId)
    /\ discordInitiatedSessions' =
          (discordInitiatedSessions
              \ (IF userId \in DOMAIN userSessions
                 THEN {userSessions[userId]} ELSE {}))
          \cup {sessionId}

\* userSessions.set(userId, id); discordInitiatedSessions.add(id)
rememberSession(userId, sessionId) ==
    /\ userSessions' = MapSet(userSessions, userId, sessionId)
    /\ discordInitiatedSessions' = discordInitiatedSessions \cup {sessionId}

\* /new: the handler starts and defers its reply.
NewCommand(userId) ==
    /\ HasFreeTask
    /\ tasks' = [tasks EXCEPT ![FreeSlot] =
                    [FreeTask EXCEPT !.kind = "new", !.pc = "defer",
                                     !.userId = userId]]
    /\ UNCHANGED <<consumer, registry, lastPostedContent,
                   discordInitiatedSessions, userSessions, backend, posts, probe,
                   responses, selection>>

\* deferReply resolves, and session.create is requested, or it throws and
\* the handler is over.
NewDefer(i, ok) ==
    /\ IsAt(i, "new", "defer")
    /\ IF ok THEN tasks' = [tasks EXCEPT ![i].pc = "create"]
             ELSE Finish(i)
    /\ UNCHANGED <<consumer, registry, lastPostedContent,
                   discordInitiatedSessions, userSessions, backend, posts, probe,
                   responses, selection>>

\* The backend serves opencode.session.create of a /new or of a first direct
\* message: session s exists from now on, the answer is on its way; or the
\* request fails.
ChatSessionCreate(i, ok, s) ==
    /\ tasks[i].kind \in {"new", "dm"}
    /\ tasks[i].pc = "create"
    /\ IF ok
       THEN /\ backend[s].status = "none"
            /\ backend' = [backend EXCEPT ![s].status = "live"]
            /\ tasks' = [tasks EXCEPT ![i].pc = "created", ![i].sid = s]
       ELSE /\ tasks' = [tasks EXCEPT ![i].pc = "error"]
            /\ UNCHANGED backend
    /\ UNCHANGED <<consumer, registry, lastPostedContent,
                   discordInitiatedSessions, userSessions, posts, probe,
                   responses, selection>>

\* /new: the answer of session.create arrives; the session is remembered and
\* marked, the reply is edited.
NewCreated(i) ==
    /\ IsAt(i, "new", "created")
    /\ rememberSession(tasks[i].userId, tasks[i].sid)
    /\ tasks' = [tasks EXCEPT ![i].pc = "editReply"]
    /\ UNCHANGED <<consumer, registry, lastPostedContent, backend, posts, probe,
                   responses, selection>>

\* /new: editReply with the session id, or with the error text.
NewEditReply(i) ==
    /\ tasks[i].kind = "new"
    /\ tasks[i].pc \in {"editReply", "error"}
    /\ Finish(i)
    /\ UNCHANGED <<consumer, registry, lastPostedContent,
                   discordInitiatedSessions, userSessions, backend, posts, probe,
                   responses, selection>>

\* messageCreate of an authorized user with a direct message: the hourglass
\* reaction is requested.
DmMessage(userId, content) ==
    /\ content # <<>>
    /\ HasFreeTask
    /\ tasks' = [tasks EXCEPT ![FreeSlot] =
                    [FreeTask EXCEPT !.kind = "dm", !.pc = "react",
                                     !.userId = userId, !.user = content]]
    /\ UNCHANGED <<consumer, registry, lastPostedContent,
                   discordInitiatedSessions, userSessions, backend, posts, probe,
                   responses, selection>>

\* The reaction resolves: the user's session is looked up; with one the
\* text handler starts (sendTyping), without one session.create is requested.
DmReact(i, ok) ==
    /\ IsAt(i, "dm", "react")
    /\ tasks' =
          IF ~ok THEN [tasks EXCEPT ![i].pc = "error"]
          ELSE IF tasks[i].userId \in DOMAIN userSessions
          THEN [tasks EXCEPT ![i].pc = "typing",
                             ![i].sid = userSessions[tasks[i].userId]]
          ELSE [tasks EXCEPT ![i].pc = "create"]
    /\ UNCHANGED <<consumer, registry, lastPostedContent,
                   discordInitiatedSessions, userSessions, backend, posts, probe,
                   responses, selection>>

\* The answer of session.create arrives; the session is remembered and
\* marked, the text handler starts (sendTyping).
DmCreated(i) ==
    /\ IsAt(i, "dm", "created")
    /\ rememberSession(tasks[i].userId, tasks[i].sid)
    /\ tasks' = [tasks EXCEPT ![i].pc = "typing"]
    /\ UNCHANGED <<consumer, registry, lastPostedContent, backend, posts, probe,
                   responses, selection>>

\* handleTextMessage: sendTyping resolves or throws.
DmTyping(i, ok) ==
    /\ IsAt(i, "dm", "typing")
    /\ tasks' = [tasks EXCEPT ![i].pc = IF ok THEN "prompt" ELSE "error"]
    /\ UNCHANGED <<consumer, registry, lastPostedContent,
                   discordInitiatedSessions, userSessions, backend, posts, probe,
                   responses, selection>>

\* handleTextMessage: sendPrompt; the backend appends the exchange and
\* answers, or the call fails.
DmPrompt(i, ok, a) ==
    /\ IsAt(i, "dm", "prompt")
    /\ LET sid == tasks[i].sid
       IN  IF ok
           THEN /\ backend[sid].status = "live"
                /\ CanPrompt
                /\ backend' = appendExchange(backend, sid, tasks[i].user, a)
                /\ tasks' = [tasks EXCEPT ![i].pc = "reply", ![i].asst = a]
           ELSE /\ tasks' = [tasks EXCEPT ![i].pc = "error"]
                /\ UNCHANGED backend
    /\ UNCHANGED <<consumer, registry, lastPostedContent,
                   discordInitiatedSessions, userSessions, posts, probe,
                   responses, selection>>

\* message.reply with the answer, or, from the catch, with the error text.
DmReply(i, ok) ==
    /\ tasks[i].kind = "dm"
    /\ tasks[i].pc \in {"reply", "error"}
    /\ IF ~ok /\ tasks[i].pc = "reply"
       THEN tasks' = [tasks EXCEPT ![i].pc = "error"]
       ELSE Finish(i)
    /\ UNCHANGED <<consumer, registry, lastPostedContent,
                   discordInitiatedSessions, userSessions, backend, posts, probe,
                   responses, selection>>

(***************************************************************************)
(* Event stream consumer: startGlobalEventSubscription.                    *)
(***************************************************************************)
Event(type, sessionID, sessionId, status) ==
    [type |-> type, sessionID |-> sessionID, sessionId |-> sessionId,
     status |-> status]

IdleEvent(s)    == Event("session.status", s, None, "idle")
BusyEvent(s)    == Event("session.status", s, None, "busy")
DeletedEvent(s) == Event("session.deleted", None, s, None)

\* Events of other kinds and events with missing or malformed fields.
OtherEvents ==
    { Event("message.updated", None, None, None),
      Event(None, None, None, None),
      Event("session.status", None, None, "idle"),
      Event("session.status", BadId, None, "idle"),
      Event("session.status", None, None, None),
      Event("session.deleted", None, None, None),
      Event("session.status", None, "s1", "idle"),
      Event("session.deleted", "s1", None, None) }

\* What the feed can deliver: status events of sessions the backend knows
\* (re-delivery included), deletion events of deleted sessions, and the rest.
FeedEvents ==
    {IdleEvent(s) : s \in {x \in Sessions : backend[x].status # "none"}}
    \cup {BusyEvent(s) : s \in {x \in Sessions : backend[x].status # "none"}}
    \cup {DeletedEvent(s) : s \in {x \in Sessions : backend[x].status = "deleted"}}
    \cup OtherEvents

Ready ==
    /\ consumer = "NotStarted"
    /\ consumer' = "Subscribing"
    /\ UNCHANGED <<registry, lastPostedContent, discordInitiatedSessions,
                   userSessions, backend, posts, tasks, probe,
                   responses, selection>>

SubscribeOk ==
    /\ consumer = "Subscribing"
    /\ consumer' = "Connected"
    /\ UNCHANGED <<registry, lastPostedContent, discordInitiatedSessions,
                   userSessions, backend, posts, tasks, probe,
                   responses, selection>>

\* Variant: the failure is logged and no retry is scheduled.
subscriptionCatchNoRetry == consumer' = "Stopped"

\* The outer catch: setTimeout(startGlobalEventSubscription, 10000).
subscriptionCatch == consumer' = "Reconnecting"

SubscribeFail ==
    /\ consumer = "Subscribing"
    /\ subscriptionCatch
    /\ UNCHANGED <<registry, lastPostedContent, discordInitiatedSessions,
                   userSessions, backend, posts, tasks, probe,
                   responses, selection>>

StreamThrow ==
    /\ consumer = "Connected"
    /\ subscriptionCatch
    /\ UNCHANGED <<registry, lastPostedContent, discordInitiatedSessions,
                   userSessions, backend, posts, tasks, probe,
                   responses, selection>>

\* The for-await loop completes: the function returns past the try block.
StreamEnd ==
    /\ consumer = "Connected"
    /\ consumer' = "Stopped"
    /\ UNCHANGED <<registry, lastPostedContent, discordInitiatedSessions,
                   userSessions, backend, posts, tasks, probe,
                   responses, selection>>

RetryTimer ==
    /\ consumer = "Reconnecting"
    /\ consumer' = "Subscribing"
    /\ UNCHANGED <<registry, lastPostedContent, discordInitiatedSessions,
                   userSessions, backend, posts, tasks, probe,
                   responses, selection>>

\* Variant: no inner try/catch, the error reaches the outer catch.
eventCatchEscapes == consumer' = "Reconnecting"

\* The inner catch around the handling of one event.
eventCatch == consumer' = consumer

\* setTimeout(() => handleSessionIdle(sessionId), 100)
scheduleIdle(sessionId) ==
    /\ HasFreeTask
    /\ tasks' = [tasks EXCEPT ![FreeSlot] =
                    [FreeTask EXCEPT !.kind = "idle", !.pc = "timer",
                                     !.sid = sessionId]]

\* Variant: the reverse mapping and the subscription are removed as well.
onSessionDeletedBothWays(sessionId) ==
    /\ sessionToThread' = MapDelete(sessionToThread, sessionId)
    /\ lastPostedContent' = MapDelete(lastPostedContent, sessionId)
    /\ discordInitiatedSessions' = discordInitiatedSessions \ {sessionId}
    /\ threadToSession' =
          [t \in {x \in DOMAIN threadToSession : threadToSession[x] # sessionId}
              |-> threadToSession[t]]
    /\ subscribedThreads' =
          {t \in subscribedThreads :
              t \notin DOMAIN threadToSession \/ threadToSession[t] # sessionId}

onSessionDeleted(sessionId) ==
    /\ sessionToThread' = MapDelete(sessionToThread, sessionId)
    /\ lastPostedContent' = MapDelete(lastPostedContent, sessionId)
    /\ discordInitiatedSessions' = discordInitiatedSessions \ {sessionId}
    /\ UNCHANGED <<threadToSession, subscribedThreads>>

\* Variant: the status type is not looked at.
StreamEventAnyStatus(e) ==
    /\ consumer = "Connected"
    /\ e \in FeedEvents
    /\ IF e.type = "session.status" /\ e.sessionID # None
       THEN IF e.sessionID = BadId
            THEN /\ eventCatch
                 /\ UNCHANGED <<registry, lastPostedContent,
                                discordInitiatedSessions, tasks>>
            ELSE /\ scheduleIdle(e.sessionID)
                 /\ UNCHANGED <<consumer, registry, lastPostedContent,
                                discordInitiatedSessions>>
       ELSE IF e.type = "session.deleted" /\ e.sessionId # None
            THEN /\ onSessionDeleted(e.sessionId)
                 /\ UNCHANGED <<consumer, tasks>>
            ELSE UNCHANGED <<consumer, registry, lastPostedContent,
                             discordInitiatedSessions, tasks>>
    /\ UNCHANGED <<userSessions, backend, posts, probe, responses, selection>>

StreamEvent(e) ==
    /\ consumer = "Connected"
    /\ e \in FeedEvents
    /\ IF e.type = "session.status" /\ e.sessionID # None /\ e.status = "idle"
       THEN IF e.sessionID = BadId
            THEN \* sessionId.slice is not a function: caught by the inner catch
                 /\ eventCatch
                 /\ UNCHANGED <<registry, lastPostedContent,
                                discordInitiatedSessions, tasks>>
            ELSE /\ scheduleIdle(e.sessionID)
                 /\ UNCHANGED <<consumer, registry, lastPostedContent,
                                discordInitiatedSessions>>
       ELSE IF e.type = "session.deleted" /\ e.sessionId # None
            THEN /\ onSessionDeleted(e.sessionId)
                 /\ UNCHANGED <<consumer, tasks>>
            ELSE UNCHANGED <<consumer, registry, lastPostedContent,
                             discordInitiatedSessions, tasks>>
    /\ UNCHANGED <<userSessions, backend, posts, probe,
                   responses, selection>>

(***************************************************************************)
(* handleSessionIdle, one action per suspension point.                     *)
(***************************************************************************)
\* Variant: the provenance check is missing.
skipsMirrorNever(sessionId) == FALSE

\* Echo-loop prevention at the entry of the handler.
skipsMirror(sessionId) == sessionId \in discordInitiatedSessions

\* The 100 ms timer fires: provenance check, then the message fetch starts.
IdleStart(i) ==
    /\ IsAt(i, "idle", "timer")
    /\ IF skipsMirror(tasks[i].sid)
       THEN Finish(i)
       ELSE tasks' = [tasks EXCEPT ![i].pc = "messages"]
    /\ UNCHANGED <<consumer, registry, lastPostedContent,
                   discordInitiatedSessions, userSessions, backend, posts, probe,
                   responses, selection>>

\* opencode.session.messages resolves (ok) or fails; then the synchronous
\* part up to the next await: extraction, dedup, registry lookup.
IdleMessages(i, ok) ==
    /\ IsAt(i, "idle", "messages")
    /\ LET sid      == tasks[i].sid
           messages == backend[sid].messages
           exchange == getLatestExchange(messages)
           userContent == extractMessageContent(exchange.userMessage)
           assistantContent == extractMessageContent(exchange.assistantMessage)
       IN  IF ~ok \/ backend[sid].status # "live" THEN Finish(i)
           ELSE IF Len(messages) = 0 THEN Finish(i)
           ELSE IF ~exchange.found THEN Finish(i)
           ELSE IF userContent = <<>> /\ assistantContent = <<>> THEN Finish(i)
           ELSE IF alreadyPosted(lastPostedContent, sid, userContent,
                                 assistantContent) THEN Finish(i)
           ELSE IF sid \in DOMAIN sessionToThread
                THEN tasks' = [tasks EXCEPT ![i] =
                        [@ EXCEPT !.pc = "fetchThread",
                                  !.thread = sessionToThread[sid],
                                  !.user = userContent,
                                  !.asst = assistantContent,
                                  !.n = Len(messages)]]
                ELSE tasks' = [tasks EXCEPT ![i] =
                        [@ EXCEPT !.pc = "starter",
                                  !.user = userContent,
                                  !.asst = assistantContent,
                                  !.n = Len(messages)]]
    /\ UNCHANGED <<consumer, registry, lastPostedContent,
                   discordInitiatedSessions, userSessions, backend, posts, probe,
                   responses, selection>>

\* createSyncThread: the sync channel is available and the starter message
\* is sent (ok), or the channel is missing or the send throws.
CreateStarter(i, ok) ==
    /\ tasks[i].kind \in {"idle", "webhook"}
    /\ tasks[i].pc = "starter"
    /\ IF ok THEN tasks' = [tasks EXCEPT ![i].pc = "startThread"]
             ELSE Finish(i)
    /\ UNCHANGED <<consumer, registry, lastPostedContent,
                   discordInitiatedSessions, userSessions, backend, posts, probe,
                   responses, selection>>

\* Variant: the reverse mapping is not stored.
bindThreadForwardOnly(sessionId, t) ==
    /\ sessionToThread' = MapSet(sessionToThread, sessionId, t)
    /\ threadToSession' = threadToSession
    /\ subscribedThreads' = subscribedThreads \cup {t}

\* Variant: the thread is not subscribed for replies.
bindThreadUnsubscribed(sessionId, t) ==
    /\ sessionToThread' = MapSet(sessionToThread, sessionId, t)
    /\ threadToSession' = MapSet(threadToSession, t, sessionId)
    /\ subscribedThreads' = subscribedThreads

\* Store mappings / subscribe, after startThread resolved with thread t.
bindThread(sessionId, t) ==
    /\ sessionToThread' = MapSet(sessionToThread, sessionId, t)
    /\ threadToSession' = MapSet(threadToSession, t, sessionId)
    /\ subscribedThreads' = subscribedThreads \cup {t}

\* createSyncThread: startThread resolves.  The idle handler goes on to
\* post; the webhook answers with the thread id (200) or with an error (500).
CreateStartThread(i, ok) ==
    /\ tasks[i].kind \in {"idle", "webhook"}
    /\ tasks[i].pc = "startThread"
    /\ IF ok
       THEN LET t == Cardinality(DOMAIN posts) + 1
            IN  /\ t <= MaxThreads
                /\ posts' = MapSet(posts, t, EmptyMap)
                /\ bindThread(tasks[i].sid, t)
                /\ IF tasks[i].kind = "idle"
                   THEN /\ tasks' = [tasks EXCEPT ![i].pc = "fetchThread",
                                                  ![i].thread = t]
                        /\ UNCHANGED responses
                   ELSE /\ Finish(i)
                        /\ responses' = responses \cup
                              {[sessionId |-> tasks[i].sid, threadId |-> t]}
       ELSE /\ Finish(i)
            /\ UNCHANGED <<registry, posts, responses>>
    /\ UNCHANGED <<consumer, lastPostedContent, discordInitiatedSessions,
                   userSessions, backend, probe, selection>>

\* postToSyncThread returned (true or false alike): the handler records the
\* exchange in the ledger and ends.
afterPost(i) ==
    /\ lastPostedContent' = recordPosted(lastPostedContent, tasks[i].sid,
                                         tasks[i].user, tasks[i].asst)
    /\ Finish(i)

\* postToSyncThread: client.channels.fetch(threadId).
PostFetchThread(i, ok) ==
    /\ IsAt(i, "idle", "fetchThread")
    /\ IF ok /\ tasks[i].user # <<>>
       THEN /\ tasks' = [tasks EXCEPT ![i].pc = "sendUser"]
            /\ UNCHANGED lastPostedContent
       ELSE IF ok /\ tasks[i].asst # <<>>
       THEN /\ tasks' = [tasks EXCEPT ![i].pc = "sendAssistant"]
            /\ UNCHANGED lastPostedContent
       ELSE afterPost(i)
    /\ UNCHANGED <<consumer, registry, discordInitiatedSessions, userSessions,
                   backend, posts, probe,
                   responses, selection>>

\* postToSyncThread: thread.send of the user text.
PostSendUser(i, ok) ==
    /\ IsAt(i, "idle", "sendUser")
    /\ LET t == tasks[i].thread
       IN  IF ok
           THEN /\ CanSend(t, Unit("User", tasks[i].user, "mirror", tasks[i].n))
                /\ posts' = send(t, Unit("User", tasks[i].user, "mirror",
                                         tasks[i].n))
                /\ IF tasks[i].asst # <<>>
                   THEN /\ tasks' = [tasks EXCEPT ![i].pc = "sendAssistant"]
                        /\ UNCHANGED lastPostedContent
                   ELSE afterPost(i)
           ELSE /\ afterPost(i)
                /\ UNCHANGED posts
    /\ UNCHANGED <<consumer, registry, discordInitiatedSessions, userSessions,
                   backend, probe,
                   responses, selection>>

\* postToSyncThread: thread.send of the assistant text.
PostSendAssistant(i, ok) ==
    /\ IsAt(i, "idle", "sendAssistant")
    /\ LET t == tasks[i].thread
       IN  IF ok
           THEN /\ CanSend(t, Unit("Assistant", tasks[i].asst, "mirror",
                                   tasks[i].n))
                /\ posts' = send(t, Unit("Assistant", tasks[i].asst, "mirror",
                                         tasks[i].n))
           ELSE UNCHANGED posts
    /\ afterPost(i)
    /\ UNCHANGED <<consumer, registry, discordInitiatedSessions, userSessions,
                   backend, probe,
                   responses, selection>>

(***************************************************************************)
(* Webhook POST /sync/session.                                             *)
(***************************************************************************)
\* The body is parsed: an already bound session is answered at once with
\* its thread id, otherwise createSyncThread starts.
SyncSessionRequest(sessionId) ==
    /\ IF sessionId \in DOMAIN sessionToThread
       THEN /\ responses' = responses \cup
                  {[sessionId |-> sessionId,
                    threadId |-> sessionToThread[sessionId]]}
            /\ UNCHANGED tasks
       ELSE /\ HasFreeTask
            /\ tasks' = [tasks EXCEPT ![FreeSlot] =
                            [FreeTask EXCEPT !.kind = "webhook", !.pc = "starter",
                                             !.sid = sessionId]]
            /\ UNCHANGED responses
    /\ UNCHANGED <<consumer, registry, lastPostedContent,
                   discordInitiatedSessions, userSessions, backend, posts, probe,
                   selection>>

(***************************************************************************)
(* Webhook POST /sync/message, one action per suspension point.  A thread  *)
(* id of 0 and a session id of None stand for a field that is not given.   *)
(***************************************************************************)
\* The inputs the message endpoint is called with.
MessageSessions == {"s1", None}

MessageThreads == 0..MaxThreads

MessageUserTexts == {<<>>, <<"u">>}

\* Variant: the session's thread is preferred to the thread id given.
targetThreadSessionFirst(sessionId, threadId) ==
    IF sessionId # None /\ sessionId \in DOMAIN sessionToThread
    THEN sessionToThread[sessionId]
    ELSE threadId

\* targetThreadId = threadId, or sessionToThread.get(sessionId) without one;
\* 0 when neither gives a thread.
targetThread(sessionId, threadId) ==
    IF threadId # 0 THEN threadId
    ELSE IF sessionId # None /\ sessionId \in DOMAIN sessionToThread
    THEN sessionToThread[sessionId]
    ELSE 0

\* The answer of the endpoint.
messageResponse(status) == [asked |-> TRUE, status |-> status]

\* The body is parsed and the target looked up: without a target the
\* request is answered with 400, with one postToSyncThread is called.
SyncMessageRequest(sessionId, threadId, userContent, assistantContent) ==
    /\ LET target == targetThread(sessionId, threadId)
       IN  IF target = 0
           THEN /\ probe' = messageResponse(400)
                /\ UNCHANGED tasks
           ELSE /\ HasFreeTask
                /\ tasks' = [tasks EXCEPT ![FreeSlot] =
                                [FreeTask EXCEPT !.kind = "message",
                                                 !.pc = "fetchThread",
                                                 !.thread = target,
                                                 !.user = userContent,
                                                 !.asst = assistantContent]]
                /\ UNCHANGED probe
    /\ UNCHANGED <<consumer, registry, lastPostedContent,
                   discordInitiatedSessions, userSessions, backend, posts,
                   responses, selection>>

\* Variant: a successful post into a bound thread is recorded in the ledger.
respondRecorded(i, success) ==
    /\ probe' = messageResponse(IF success THEN 200 ELSE 500)
    /\ lastPostedContent' =
           IF success /\ tasks[i].thread \in DOMAIN threadToSession
           THEN recordPosted(lastPostedContent,
                             threadToSession[tasks[i].thread],
                             tasks[i].user, tasks[i].asst)
           ELSE lastPostedContent
    /\ Finish(i)

\* The request is answered with 200 or 500 and is over.
respond(i, success) ==
    /\ probe' = messageResponse(IF success THEN 200 ELSE 500)
    /\ UNCHANGED lastPostedContent
    /\ Finish(i)

\* The handler goes on to the next step of postToSyncThread.
proceed(i, pc) ==
    /\ tasks' = [tasks EXCEPT ![i].pc = pc]
    /\ UNCHANGED <<probe, lastPostedContent>>

\* postToSyncThread: client.channels.fetch(threadId) gives the thread, or
\* throws, or gives no thread; then the first send is reached, if any.
SyncMessageFetch(i, ok) ==
    /\ IsAt(i, "message", "fetchThread")
    /\ IF ~ok \/ tasks[i].thread \notin DOMAIN posts
       THEN respond(i, FALSE)
       ELSE IF tasks[i].user # <<>>
       THEN proceed(i, "sendUser")
       ELSE IF tasks[i].asst # <<>>
       THEN proceed(i, "sendAssistant")
       ELSE respond(i, TRUE)
    /\ UNCHANGED <<consumer, registry, discordInitiatedSessions,
                   userSessions, backend, posts, responses, selection>>

\* postToSyncThread: thread.send of the user text.
SyncMessageSendUser(i, ok) ==
    /\ IsAt(i, "message", "sendUser")
    /\ LET t    == tasks[i].thread
           unit == Unit("User", tasks[i].user, "message", 0)
       IN  IF ok
           THEN /\ copies(t, unit) < MaxPosts
                /\ posts' = send(t, unit)
                /\ IF tasks[i].asst # <<>>
                   THEN proceed(i, "sendAssistant")
                   ELSE respond(i, TRUE)
           ELSE /\ respond(i, FALSE)
                /\ UNCHANGED posts
    /\ UNCHANGED <<consumer, registry, discordInitiatedSessions,
                   userSessions, backend, responses, selection>>

\* postToSyncThread: thread.send of the assistant text.
SyncMessageSendAssistant(i, ok) ==
    /\ IsAt(i, "message", "sendAssistant")
    /\ LET t    == tasks[i].thread
           unit == Unit("Assistant", tasks[i].asst, "message", 0)
       IN  IF ok
           THEN /\ copies(t, unit) < MaxPosts
                /\ posts' = send(t, unit)
                /\ respond(i, TRUE)
           ELSE /\ respond(i, FALSE)
                /\ UNCHANGED posts
    /\ UNCHANGED <<consumer, registry, discordInitiatedSessions,
                   userSessions, backend, responses, selection>>

(***************************************************************************)
(* handleSyncThreadReply, one action per suspension point.                 *)
(***************************************************************************)
\* Variant: the lookup result is used without the check.
handleSyncThreadReplyUnchecked(threadId, content) ==
    /\ HasFreeTask
    /\ tasks' = [tasks EXCEPT ![FreeSlot] =
                    [FreeTask EXCEPT !.kind = "reply", !.pc = "typing",
                                     !.sid = IF threadId \in DOMAIN threadToSession
                                             THEN threadToSession[threadId]
                                             ELSE None,
                                     !.thread = threadId, !.user = content]]
    /\ UNCHANGED <<consumer, registry, lastPostedContent,
                   discordInitiatedSessions, userSessions, backend, posts, probe,
                   responses, selection>>

\* Variant: a reply is also turned away when its session has lost the
\* forward mapping.
handleSyncThreadReplyForwardChecked(threadId, content) ==
    /\ IF \/ threadId \notin DOMAIN threadToSession
          \/ threadToSession[threadId] \notin DOMAIN sessionToThread
       THEN /\ probe' = [asked |-> TRUE, threadId |-> threadId,
                         error |-> "No session found for thread"]
            /\ UNCHANGED tasks
       ELSE /\ HasFreeTask
            /\ tasks' = [tasks EXCEPT ![FreeSlot] =
                            [FreeTask EXCEPT !.kind = "reply", !.pc = "typing",
                                             !.sid = threadToSession[threadId],
                                             !.thread = threadId,
                                             !.user = content]]
            /\ UNCHANGED probe
    /\ UNCHANGED <<consumer, registry, lastPostedContent,
                   discordInitiatedSessions, userSessions, backend, posts,
                   responses, selection>>

\* The entry of the handler up to its first await: the session is looked up;
\* without one the error is logged and the handler returns, with one the
\* typing indicator is requested.
handleSyncThreadReply(threadId, content) ==
    /\ IF threadId \notin DOMAIN threadToSession
       THEN /\ probe' = [asked |-> TRUE, threadId |-> threadId,
                         error |-> "No session found for thread"]
            /\ UNCHANGED tasks
       ELSE /\ HasFreeTask
            /\ tasks' = [tasks EXCEPT ![FreeSlot] =
                            [FreeTask EXCEPT !.kind = "reply", !.pc = "typing",
                                             !.sid = threadToSession[threadId],
                                             !.thread = threadId,
                                             !.user = content]]
            /\ UNCHANGED probe
    /\ UNCHANGED <<consumer, registry, lastPostedContent,
                   discordInitiatedSessions, userSessions, backend, posts,
                   responses, selection>>

\* messageCreate of an authorized, non-bot author in a subscribed thread
\* that has a session: the message is handed to the reply handler.
ThreadReply(t, content) ==
    /\ t \in subscribedThreads
    /\ t \in DOMAIN threadToSession
    /\ content # <<>>
    /\ handleSyncThreadReply(t, content)

\* sendTyping resolves or throws (then the catch posts the error).
ReplyTyping(i, ok) ==
    /\ IsAt(i, "reply", "typing")
    /\ tasks' = [tasks EXCEPT ![i].pc = IF ok THEN "prompt" ELSE "sendError"]
    /\ UNCHANGED <<consumer, registry, lastPostedContent,
                   discordInitiatedSessions, userSessions, backend, posts, probe,
                   responses, selection>>

\* sendPrompt: the backend appends the exchange and answers with text a, or
\* the call fails or returns an error-shaped result.
ReplyPrompt(i, ok, a) ==
    /\ IsAt(i, "reply", "prompt")
    /\ LET sid == tasks[i].sid
       IN  IF ok
           THEN /\ backend[sid].status = "live"
                /\ CanPrompt
                /\ backend' = appendExchange(backend, sid, tasks[i].user, a)
                /\ tasks' = [tasks EXCEPT ![i].pc = "sendResponse",
                                          ![i].asst = a,
                                          ![i].n = Len(backend[sid].messages) + 2]
           ELSE /\ tasks' = [tasks EXCEPT ![i].pc = "sendError"]
                /\ UNCHANGED backend
    /\ UNCHANGED <<consumer, registry, lastPostedContent,
                   discordInitiatedSessions, userSessions, posts, probe,
                   responses, selection>>

\* The response (or the no-response notice) is sent into the thread.
ReplySendResponse(i, ok) ==
    /\ IsAt(i, "reply", "sendResponse")
    /\ LET t == tasks[i].thread
           unit == Unit(IF tasks[i].asst # <<>> THEN "Assistant"
                                                    ELSE "NoResponse",
                        tasks[i].asst, "reply", tasks[i].n)
       IN  IF ok
           THEN /\ CanSend(t, unit)
                /\ posts' = send(t, unit)
                /\ Finish(i)
           ELSE /\ tasks' = [tasks EXCEPT ![i].pc = "sendError"]
                /\ UNCHANGED posts
    /\ UNCHANGED <<consumer, registry, lastPostedContent,
                   discordInitiatedSessions, userSessions, backend, probe,
                   responses, selection>>

\* Variant: the error text carries the assistant label.
errorUnitLabelled(i) == Unit("Assistant", <<>>, "reply", tasks[i].n)

\* `*Error: ${error.message}*`
errorUnit(i) == Unit("Error", <<>>, "reply", tasks[i].n)

\* Variant: a failed forward unsubscribes the thread.
ReplySendErrorUnsubscribes(i, ok) ==
    /\ IsAt(i, "reply", "sendError")
    /\ LET t == tasks[i].thread
       IN  /\ IF ok
              THEN /\ CanSend(t, errorUnit(i))
                   /\ posts' = send(t, errorUnit(i))
              ELSE UNCHANGED posts
           /\ subscribedThreads' = subscribedThreads \ {t}
    /\ Finish(i)
    /\ UNCHANGED <<consumer, sessionToThread, threadToSession,
                   lastPostedContent, discordInitiatedSessions, userSessions,
                   backend, probe, responses, selection>>

\* The catch block sends the error text; if that throws too, the exception
\* leaves the handler and the caller (messageCreate) catches it.
ReplySendError(i, ok) ==
    /\ IsAt(i, "reply", "sendError")
    /\ LET t == tasks[i].thread
       IN  IF ok
           THEN /\ CanSend(t, errorUnit(i))
                /\ posts' = send(t, errorUnit(i))
           ELSE UNCHANGED posts
    /\ Finish(i)
    /\ UNCHANGED <<consumer, registry, lastPostedContent,
                   discordInitiatedSessions, userSessions, backend, probe,
                   responses, selection>>

(***************************************************************************)
(* messageCreate from its first line: the author test, the channel gate,   *)
(* the authorization check and the choice between the reply handler of a   *)
(* bound thread and the author's own session.  Channel 0 is a direct       *)
(* message channel, the other channels are threads.  probe holds the       *)
(* configured allowlist and, in gate, how the last message that was turned *)
(* away was turned away: as a message of a bot, or with the denial.        *)
(***************************************************************************)
\* Who writes messages: a member with the edit role, a member without a
\* role, and the bridge itself.  Somebody outside the guild is what a failed
\* members.fetch makes of any of them.
Bots == {"bot"}

Authors == Users \cup {"mallory"} \cup Bots

Members == Authors

rolesOf(userId) == IF userId \in Users THEN {"edit"} ELSE {}

\* DISCORD_ALLOWED_USERS as configured: empty, or with its users.
Allowlists == {{}, Users}

\* What an author writes: users a text or nothing (an attachment only).
MessageTexts == {<<>>, <<"u">>}

\* Variant: no author is taken for a bot.
isBotNever(author) == FALSE

\* message.author.bot
isBot(author) == author \in Bots

\* guild.members.fetch resolves for a member; it throws for anybody else and
\* when the request fails.
isGuildMember(userId, ok) == ok /\ userId \in Members

\* The role is among the member's roles; a failed fetch counts as no role.
userHasRole(userId, roleName, ok) == ok /\ roleName \in rolesOf(userId)

checkUserAuthorized(userId, okMember, okRoles) ==
    IF ~isGuildMember(userId, okMember)
    THEN [authorized |-> FALSE, isFirstUser |-> FALSE]
    ELSE IF probe.allowedUsers = {}
    THEN [authorized |-> TRUE, isFirstUser |-> TRUE]
    ELSE IF userId \in probe.allowedUsers
    THEN [authorized |-> TRUE, isFirstUser |-> FALSE]
    ELSE IF \/ userHasRole(userId, "admin", okRoles)
            \/ userHasRole(userId, "edit", okRoles)
    THEN [authorized |-> TRUE, isFirstUser |-> FALSE]
    ELSE [authorized |-> FALSE, isFirstUser |-> FALSE]

\* Variant: nobody is turned away.
deniedNever(auth) == FALSE

\* if (!auth.authorized)
denied(auth) == ~auth.authorized

\* The messageCreate handlers in flight.
messageHandlers == {i \in 1..MaxTasks : tasks[i].kind \in {"create", "reply", "dm"}}

\* The decision of the first lines of the handler for a message.
gateDecision(author, channel, mentioned, early) ==
    IF isBot(author) THEN "bot"
    ELSE IF channel # 0 /\ ~mentioned /\ channel \notin subscribedThreads
    THEN "dropped"
    ELSE IF early THEN "dropped"
    ELSE "passed"

\* A message arrives.  What the bridge itself wrote arrives too: a message
\* of the bot carries the text of a unit of its thread.  A message that is
\* let through reaches the authorization check, any other is dropped.
MessageCreate(author, channel, content, mentioned, early) ==
    /\ channel \in {0} \cup DOMAIN posts
    /\ IF isBot(author)
       THEN /\ channel # 0
            /\ \E unit \in DOMAIN posts[channel] : unit.text = content
       ELSE /\ content \in MessageTexts
            /\ channel = 0 => content # <<>>
    /\ LET decision == gateDecision(author, channel, mentioned, early)
       IN  /\ probe' = [probe EXCEPT !.gate = IF decision = "bot"
                                               THEN "bot" ELSE @]
           /\ IF decision = "passed"
              THEN /\ HasFreeTask
                   /\ Cardinality(messageHandlers) < MaxHandlers
                   /\ tasks' = [tasks EXCEPT ![FreeSlot] =
                                   [FreeTask EXCEPT !.kind = "create",
                                                    !.pc = "auth",
                                                    !.userId = author,
                                                    !.thread = channel,
                                                    !.user = content]]
              ELSE UNCHANGED tasks
    /\ UNCHANGED <<consumer, registry, lastPostedContent,
                   discordInitiatedSessions, userSessions, backend, posts,
                   responses, selection>>

\* checkUserAuthorized has answered.  The first user and an author who is
\* not authorized get a reply.  In a thread that has a session the message
\* goes to the reply handler, if it has text, and the handler returns in any
\* case; elsewhere the author's own session is used.
MessageAuth(i, okMember, okRoles) ==
    /\ IsAt(i, "create", "auth")
    /\ LET auth == checkUserAuthorized(tasks[i].userId, okMember, okRoles)
       IN  IF auth.isFirstUser
           THEN tasks' = [tasks EXCEPT ![i].pc = "firstReply"]
           ELSE IF denied(auth)
           THEN tasks' = [tasks EXCEPT ![i].pc = "denyReply"]
           ELSE IF tasks[i].thread # 0
                   /\ tasks[i].thread \in DOMAIN threadToSession
           THEN IF tasks[i].user # <<>>
                THEN tasks' = [tasks EXCEPT ![i].pc = "react"]
                ELSE Finish(i)
           ELSE IF tasks[i].user # <<>>
           THEN tasks' = [tasks EXCEPT ![i].kind = "dm", ![i].pc = "react"]
           ELSE Finish(i)
    /\ UNCHANGED <<consumer, registry, lastPostedContent,
                   discordInitiatedSessions, userSessions, backend, posts,
                   probe, responses, selection>>

\* The first user has the reply: addUserToEnvAndExit writes the user into
\* the allowlist of the environment file and ends the process, and the
\* process is started again, as the reply announces: every handler is gone
\* and the maps are empty, the threads and the backend are as they were.
\* If the reply throws, the handler is over.
MessageFirstReply(i, ok) ==
    /\ IsAt(i, "create", "firstReply")
    /\ IF ok
       THEN /\ probe' = [probe EXCEPT !.allowedUsers = {tasks[i].userId},
                                      !.gate = "none"]
            /\ tasks' = [j \in 1..MaxTasks |-> FreeTask]
            /\ consumer' = "NotStarted"
            /\ sessionToThread' = EmptyMap
            /\ threadToSession' = EmptyMap
            /\ subscribedThreads' = {}
            /\ lastPostedContent' = EmptyMap
            /\ discordInitiatedSessions' = {}
            /\ userSessions' = EmptyMap
       ELSE /\ Finish(i)
            /\ UNCHANGED <<consumer, registry, lastPostedContent,
                           discordInitiatedSessions, userSessions, probe>>
    /\ UNCHANGED <<backend, posts, responses, selection>>

\* message.reply(auth.reason), sent or not: the handler returns.
MessageDenyReply(i, ok) ==
    /\ IsAt(i, "create", "denyReply")
    /\ Finish(i)
    /\ probe' = [probe EXCEPT !.gate = "denied"]
    /\ UNCHANGED <<consumer, registry, lastPostedContent,
                   discordInitiatedSessions, userSessions, backend, posts,
                   responses, selection>>

\* The hourglass reaction is set: handleSyncThreadReply is entered with the
\* thread's id, looks the session up and requests the typing indicator.  If
\* the reaction throws, the handler is over.
MessageReact(i, ok) ==
    /\ IsAt(i, "create", "react")
    /\ IF ok /\ tasks[i].thread \in DOMAIN threadToSession
       THEN tasks' = [tasks EXCEPT ![i].kind = "reply",
                                   ![i].pc = "typing",
                                   ![i].sid = threadToSession[tasks[i].thread]]
       ELSE Finish(i)
    /\ UNCHANGED <<consumer, registry, lastPostedContent,
                   discordInitiatedSessions, userSessions, backend, posts,
                   probe, responses, selection>>

(***************************************************************************)
(* Dedup decision in isolation: the decision of the handler is taken for   *)
(* arbitrary texts against arbitrary ledgers.                              *)
(***************************************************************************)
ProbeUserTexts == UserTexts \cup {<<>>}
ProbeAsstTexts == AsstTexts \cup {<<"b">>, <<>>}

LedgerEntries ==
    [userContent : ProbeUserTexts, assistantContent : ProbeAsstTexts]

Ledgers ==
    UNION {[S -> LedgerEntries] : S \in SUBSET Sessions}

InitDedup ==
    /\ consumer = "NotStarted"
    /\ sessionToThread = EmptyMap
    /\ threadToSession = EmptyMap
    /\ subscribedThreads = {}
    /\ lastPostedContent \in Ledgers
    /\ discordInitiatedSessions = {}
    /\ userSessions = EmptyMap
    /\ backend = [s \in Sessions |-> [status |-> "none", messages |-> <<>>]]
    /\ posts = EmptyMap
    /\ tasks = [i \in 1..MaxTasks |-> FreeTask]
    /\ probe = [asked |-> FALSE]
    /\ responses = {}
    /\ modelButtonMaps = <<>>
    /\ userModels = EmptyMap
    /\ menus = EmptyMap
    /\ now = 0
    /\ available = <<>>
    /\ interactions = 0

\* The dedup check of the handler, applied to (sessionId, u, a).
DedupDecide(sessionId, u, a) ==
    /\ probe' = [asked |-> TRUE, sessionId |-> sessionId,
                 userContent |-> u, assistantContent |-> a,
                 suppressed |-> alreadyPosted(lastPostedContent, sessionId, u, a)]
    /\ UNCHANGED <<consumer, registry, lastPostedContent,
                   discordInitiatedSessions, userSessions, backend, posts, tasks,
                   responses, selection>>

\* The ledger write of the handler, applied to (sessionId, u, a).
DedupRecord(sessionId, u, a) ==
    /\ lastPostedContent' = recordPosted(lastPostedContent, sessionId, u, a)
    /\ probe' = [asked |-> FALSE]
    /\ UNCHANGED <<consumer, registry, discordInitiatedSessions, userSessions,
                   backend, posts, tasks, responses, selection>>

(***************************************************************************)
(* Model selection: /models, the page buttons and the model buttons.       *)
(* Indices are 0-based as in the code; models[j + 1] is the code's         *)
(* models[j].                                                              *)
(***************************************************************************)
Min(a, b) == IF a <= b THEN a ELSE b

DigitChars == <<"0", "1", "2", "3", "4", "5", "6", "7", "8", "9">>

\* Decimal digits of k < 100, as a text.
Digits(k) ==
    IF k < 10 THEN <<DigitChars[k + 1]>>
    ELSE <<DigitChars[(k \div 10) + 1], DigitChars[(k % 10) + 1]>>

\* getAvailableModels: the k-th model of provider "p" (display name "P").
Model(k) == [id   |-> <<"p", "/">> \o Digits(k),
             name |-> <<"P", " ">> \o Digits(k)]

ModelList(n) == [k \in 1..n |-> Model(k - 1)]

toLowerCase(text) ==
    [i \in 1..Len(text) |-> IF text[i] = "P" THEN "p" ELSE text[i]]

includes(text, part) ==
    \E i \in 1..(Len(text) - Len(part) + 1) :
        SubSeq(text, i, i + Len(part) - 1) = part

matchesFilter(m, filter) ==
    includes(toLowerCase(m.name), filter) \/ includes(toLowerCase(m.id), filter)

applyFilter(models, filter) ==
    IF filter = <<>> THEN models
    ELSE SelectSeq(models, LAMBDA m : matchesFilter(m, filter))

\* models.slice(start, end)
slice(models, start, end) ==
    IF start >= Len(models) THEN <<>>
    ELSE SubSeq(models, start + 1, Min(end, Len(models)))

Button(index, model) == [index |-> index, model |-> model]

\* The nested loops that fill the rows: shown[j + 1] gets the button with
\* custom id model_(start + j), buttonsPerRow to a row.
buttonRows(shown, start) ==
    [r \in 1..((Len(shown) + buttonsPerRow - 1) \div buttonsPerRow) |->
        [c \in 1..Min(buttonsPerRow, Len(shown) - buttonsPerRow * (r - 1)) |->
            LET j == buttonsPerRow * (r - 1) + (c - 1)
            IN  Button(start + j, shown[j + 1])]]

\* handleModelsCommand: the first page, and a map of all models.
renderModels(models) ==
    [rows |-> buttonRows(slice(models, 0, maxButtons), 0),
     prev |-> {},
     next |-> IF Len(models) > maxButtons THEN {1} ELSE {},
     buttonMap |-> [j \in 0..(Len(models) - 1) |-> models[j + 1]]]

\* Variant: the next control is shown when the page is exactly full.
renderPageOffByOne(models, page) ==
    LET start      == page * pageSize
        pageModels == slice(models, start, start + pageSize)
    IN  [rows |-> buttonRows(pageModels, start),
         prev |-> IF page > 0 THEN {page - 1} ELSE {},
         next |-> IF start + pageSize <= Len(models) THEN {page + 1} ELSE {},
         buttonMap |-> [j \in start..(start + Len(pageModels) - 1) |->
                          pageModels[j - start + 1]]]

\* handleButtonInteraction, models_page_N: one page, and a map of its models.
renderPage(models, page) ==
    LET start      == page * pageSize
        pageModels == slice(models, start, start + pageSize)
    IN  [rows |-> buttonRows(pageModels, start),
         prev |-> IF page > 0 THEN {page - 1} ELSE {},
         next |-> IF start + pageSize < Len(models) THEN {page + 1} ELSE {},
         buttonMap |-> [j \in start..(start + Len(pageModels) - 1) |->
                          pageModels[j - start + 1]]]

\* A menu message as the chat platform shows it: the rows of model buttons
\* and the pages its Previous and Next buttons lead to (none or one each);
\* page and models tell what it was rendered from, interaction by which
\* interaction, at when.
Menu(userId, page, models, r, interactionId) ==
    [owner |-> userId, page |-> page, models |-> models,
     rows |-> r.rows, prev |-> r.prev, next |-> r.next,
     interaction |-> interactionId, at |-> now]

\* The indices of the model buttons a menu shows.
shownIndices(m) ==
    UNION {{menus[m].rows[r][c].index : c \in DOMAIN menus[m].rows[r]}
              : r \in DOMAIN menus[m].rows}

\* /models with a filter: the providers answer (ok) or getAvailableModels
\* returns [] after an error; the menu is sent with editReply.
ModelsCommand(userId, filter, ok) ==
    /\ interactions < MaxInteractions
    /\ Cardinality(DOMAIN menus) < MaxMenus
    /\ HasFreeTask
    /\ interactions' = interactions + 1
    /\ LET id     == interactions + 1
           models == applyFilter(IF ok THEN available ELSE <<>>, filter)
           r      == renderModels(models)
       IN  IF Len(models) = 0
           THEN UNCHANGED <<menus, tasks>>
           ELSE /\ menus' = MapSet(menus, id, Menu(userId, 0, models, r, id))
                /\ tasks' = [tasks EXCEPT ![FreeSlot] =
                                [kind |-> "models", pc |-> "editReply",
                                 interactionId |-> id,
                                 buttonMap |-> r.buttonMap]]
    /\ UNCHANGED <<consumer, registry, lastPostedContent,
                   discordInitiatedSessions, userSessions, backend, posts, probe,
                   responses, modelButtonMaps, userModels, now, available>>

\* A page button of menu m is pressed: the models are fetched again and the
\* message is updated with the page.
PageClick(userId, m, page, ok) ==
    /\ m \in DOMAIN menus
    /\ page \in menus[m].prev \cup menus[m].next
    /\ interactions < MaxInteractions
    /\ HasFreeTask
    /\ interactions' = interactions + 1
    /\ LET id     == interactions + 1
           models == IF ok THEN available ELSE <<>>
           r      == renderPage(models, page)
       IN  /\ menus' = [menus EXCEPT ![m] = Menu(@.owner, page, models, r, id)]
           /\ tasks' = [tasks EXCEPT ![FreeSlot] =
                           [kind |-> "page", pc |-> "update",
                            interactionId |-> id, buttonMap |-> r.buttonMap]]
    /\ UNCHANGED <<consumer, registry, lastPostedContent,
                   discordInitiatedSessions, userSessions, backend, posts, probe,
                   responses, modelButtonMaps, userModels, now, available>>

\* editReply / update resolved: the button map is stored under the
\* interaction id and its deletion is scheduled; if the call threw, nothing
\* is stored.
MenuStored(i, ok) ==
    /\ IsAt(i, "models", "editReply") \/ IsAt(i, "page", "update")
    /\ modelButtonMaps' =
          IF ok THEN Append(modelButtonMaps,
                            [interactionId |-> tasks[i].interactionId,
                             buttonMap |-> tasks[i].buttonMap,
                             storedAt |-> now])
                ELSE modelButtonMaps
    /\ Finish(i)
    /\ UNCHANGED <<consumer, registry, lastPostedContent,
                   discordInitiatedSessions, userSessions, backend, posts, probe,
                   responses, userModels, menus, now, available, interactions>>

\* The deletion timer of a stored map is due.
timerDue(entry) == now >= entry.storedAt + ExpiryMinutes

ExpireTimer(interactionId) ==
    /\ \E k \in 1..Len(modelButtonMaps) :
          /\ modelButtonMaps[k].interactionId = interactionId
          /\ timerDue(modelButtonMaps[k])
    /\ modelButtonMaps' =
          SelectSeq(modelButtonMaps,
                    LAMBDA entry : entry.interactionId # interactionId)
    /\ UNCHANGED <<consumer, registry, lastPostedContent,
                   discordInitiatedSessions, userSessions, backend, posts, tasks,
                   probe, responses, userModels, menus, now, available,
                   interactions>>

\* A minute passes.  Due timers run first, and a pending editReply or
\* update resolves within the minute.
Tick ==
    /\ now < MaxTime
    /\ \A k \in 1..Len(modelButtonMaps) : ~timerDue(modelButtonMaps[k])
    /\ \A i \in 1..MaxTasks : tasks[i].kind \notin {"models", "page"}
    /\ now' = now + 1
    /\ UNCHANGED <<consumer, registry, lastPostedContent,
                   discordInitiatedSessions, userSessions, backend, posts, tasks,
                   probe, responses, modelButtonMaps, userModels, menus,
                   available, interactions>>

\* The loop over modelButtonMaps: the first map, in insertion order, that
\* has the index.
mapsWith(idx) ==
    {k \in 1..Len(modelButtonMaps) : idx \in DOMAIN modelButtonMaps[k].buttonMap}

\* A model button of menu m is pressed (custom id model_idx).  With a model
\* found the preference is set and the message loses its buttons (ok) unless
\* the update throws; without one the selection is reported as expired.
SelectClick(userId, m, idx, ok) ==
    /\ m \in DOMAIN menus
    /\ idx \in shownIndices(m)
    /\ IF mapsWith(idx) # {}
       THEN LET k     == CHOOSE x \in mapsWith(idx) : \A y \in mapsWith(idx) : x <= y
                model == modelButtonMaps[k].buttonMap[idx]
            IN  /\ userModels' = MapSet(userModels, userId, model.id)
                /\ probe' = [asked |-> TRUE, menu |-> m, index |-> idx,
                             outcome |-> "changed", model |-> model]
                /\ menus' = IF ok THEN [menus EXCEPT ![m].rows = <<>>,
                                                     ![m].prev = {},
                                                     ![m].next = {}]
                                  ELSE menus
       ELSE /\ probe' = [asked |-> TRUE, menu |-> m, index |-> idx,
                         outcome |-> "expired"]
            /\ UNCHANGED <<userModels, menus>>
    /\ UNCHANGED <<consumer, registry, lastPostedContent,
                   discordInitiatedSessions, userSessions, backend, posts, tasks,
                   responses, modelButtonMaps, now, available, interactions>>

(***************************************************************************)
(* Message splitter.  Indices are 0-based as in the code, -1 is "not       *)
(* found".                                                                 *)
(***************************************************************************)
\* text.lastIndexOf(ch, fromIndex): the search runs backward from fromIndex.
lastIndexOf(text, ch, fromIndex) ==
    LET hits == {i \in 0..Min(fromIndex, Len(text) - 1) : text[i + 1] = ch}
    IN  IF hits = {} THEN -1 ELSE Max(hits)

\* Variant: a cut in the first half of the limit is taken.
rejectedOnlyMissing(index, maxLength) == index = -1

\* splitIndex === -1 || splitIndex < maxLength / 2
rejected(index, maxLength) == index = -1 \/ 2 * index < maxLength

\* Variant: the forced split is one character too far.
forceSplitBeyond(maxLength) == maxLength + 1

forceSplit(maxLength) == maxLength

\* Variant: a space is preferred to a newline.
splitIndexSpaceFirst(remaining, maxLength) ==
    LET atNewline == lastIndexOf(remaining, "\n", maxLength)
        atSpace   == lastIndexOf(remaining, " ", maxLength)
    IN  IF ~rejected(atSpace, maxLength) THEN atSpace
        ELSE IF ~rejected(atNewline, maxLength) THEN atNewline
        ELSE forceSplit(maxLength)

\* Where a remaining text longer than maxLength is cut.
splitIndex(remaining, maxLength) ==
    LET atNewline == lastIndexOf(remaining, "\n", maxLength)
        atSpace   == lastIndexOf(remaining, " ", maxLength)
    IN  IF ~rejected(atNewline, maxLength) THEN atNewline
        ELSE IF ~rejected(atSpace, maxLength) THEN atSpace
        ELSE forceSplit(maxLength)

\* Variant: the character at the cut is dropped as a separator.
remainderSkipping(remaining, index) ==
    trim(slice(remaining, index + 1, Len(remaining)))

\* remaining.slice(splitIndex).trim()
remainderAfter(remaining, index) ==
    trim(slice(remaining, index, Len(remaining)))

RECURSIVE splitLoop(_, _, _)
splitLoop(remaining, maxLength, parts) ==
    IF Len(remaining) = 0 THEN parts
    ELSE IF Len(remaining) <= maxLength THEN Append(parts, remaining)
    ELSE LET index == splitIndex(remaining, maxLength)
         IN  splitLoop(remainderAfter(remaining, index), maxLength,
                       Append(parts, slice(remaining, 0, index)))

splitMessage(text, maxLength) ==
    IF Len(text) <= maxLength THEN <<text>>
    ELSE splitLoop(text, maxLength, <<>>)

(***************************************************************************)
(* Initial values by group, for the specifications that draw an input.     *)
(***************************************************************************)
InitSync ==
    /\ consumer = "NotStarted"
    /\ sessionToThread = EmptyMap
    /\ threadToSession = EmptyMap
    /\ subscribedThreads = {}
    /\ lastPostedContent = EmptyMap
    /\ discordInitiatedSessions = {}
    /\ userSessions = EmptyMap
    /\ posts = EmptyMap
    /\ tasks = [i \in 1..MaxTasks |-> FreeTask]
    /\ responses = {}

InitSelection ==
    /\ modelButtonMaps = <<>>
    /\ userModels = EmptyMap
    /\ menus = EmptyMap
    /\ now = 0
    /\ available = <<>>
    /\ interactions = 0

NoSessions == [s \in Sessions |-> [status |-> "none", messages |-> <<>>]]

(***************************************************************************)
(* Exchange extractor in isolation: getLatestExchange over the message     *)
(* lists a session can hold.  The text of a message tells its position.    *)
(***************************************************************************)
Roles == {"user", "assistant", None}

MarkedMessage(role, i) == TextMessage(role, [j \in 1..i |-> "x"])

MessageLists ==
    UNION {{[i \in 1..n |-> MarkedMessage(roles[i], i)] : roles \in [1..n -> Roles]}
              : n \in 0..MaxMessages}

InitExchange ==
    /\ InitSync
    /\ InitSelection
    /\ \E messages \in MessageLists :
          backend = [NoSessions EXCEPT !["s1"] =
                        [status |-> "live", messages |-> messages]]
    /\ probe = [asked |-> FALSE]

\* The extraction step of the idle handler, applied to the messages of s.
LatestExchange(s) ==
    /\ backend[s].status = "live"
    /\ probe' = [asked |-> TRUE, sessionId |-> s,
                 exchange |-> getLatestExchange(backend[s].messages)]
    /\ UNCHANGED <<consumer, registry, lastPostedContent,
                   discordInitiatedSessions, userSessions, backend, posts, tasks,
                   responses, selection>>

(***************************************************************************)
(* The idle handler over the message lists a terminal session can hold     *)
(* when it falls idle: empty, one-sided, blank, or with an exchange.        *)
(***************************************************************************)
LazyTexts == {<<>>, <<" ">>, <<"u">>}

LazyLists ==
    UNION {{[i \in 1..n |-> TextMessage(roles[i], texts[i])] :
               roles \in [1..n -> {"user", "assistant"}],
               texts \in [1..n -> LazyTexts]}
              : n \in 0..2}

InitLazy ==
    /\ InitSync
    /\ InitSelection
    /\ \E messages \in LazyLists :
          backend = [NoSessions EXCEPT !["s1"] =
                        [status |-> "live", messages |-> messages]]
    /\ probe = [asked |-> FALSE]

(***************************************************************************)
(* Message splitter in isolation, over texts with letters and whitespace   *)
(* and over small limits.                                                  *)
(***************************************************************************)
SplitChars == {"a", "b", " ", "\n", "\t"}

SplitTexts == UNION {[1..n -> SplitChars] : n \in 0..MaxLen}

InitSplit ==
    /\ InitSync
    /\ InitSelection
    /\ backend = NoSessions
    /\ \E text \in SplitTexts, maxLength \in 1..MaxLimit :
          probe = [asked |-> FALSE, text |-> text, maxLength |-> maxLength]

\* splitMessage(text, maxLength) as the post and reply handlers call it.
SplitApply ==
    /\ ~probe.asked
    /\ probe' = [asked |-> TRUE, text |-> probe.text,
                 maxLength |-> probe.maxLength,
                 parts |-> splitMessage(probe.text, probe.maxLength)]
    /\ UNCHANGED <<consumer, registry, lastPostedContent,
                   discordInitiatedSessions, userSessions, backend, posts, tasks,
                   responses, selection>>

(***************************************************************************)
(* The invocations of startGlobalEventSubscription, counted: calls waiting *)
(* for opencode.global.event(), loops iterating a stream, retry timers     *)
(* pending.  The feed hands an event to every stream that is open.         *)
(***************************************************************************)
InitFeed ==
    /\ InitSync
    /\ InitSelection
    /\ backend = NoSessions
    /\ probe = [asked |-> FALSE, ready |-> FALSE, subscribing |-> 0,
                loops |-> 0, timers |-> 0, retries |-> 0,
                delivered |-> 0, handled |-> 0]

\* Variant: client.on('ready'), which can fire again.
readyFiresAgain(p) == TRUE

\* client.once('ready', ...)
readyFires(p) == ~p.ready

\* The ready handler: with the guild in the cache the subscription is
\* started, without it only the warning is logged.
FeedReady(guild) ==
    /\ readyFires(probe)
    /\ probe' = [probe EXCEPT !.asked = TRUE, !.ready = TRUE,
                              !.subscribing = IF guild THEN @ + 1 ELSE @]
    /\ UNCHANGED <<consumer, registry, lastPostedContent,
                   discordInitiatedSessions, userSessions, backend, posts, tasks,
                   responses, selection>>

\* opencode.global.event() resolves and the loop starts, or it throws and
\* the catch sets the retry timer.
FeedSubscribed(ok) ==
    /\ probe.subscribing > 0
    /\ IF ok
       THEN probe' = [probe EXCEPT !.subscribing = @ - 1, !.loops = @ + 1]
       ELSE /\ probe.retries < MaxRetries
            /\ probe' = [probe EXCEPT !.subscribing = @ - 1, !.timers = @ + 1,
                                      !.retries = @ + 1]
    /\ UNCHANGED <<consumer, registry, lastPostedContent,
                   discordInitiatedSessions, userSessions, backend, posts, tasks,
                   responses, selection>>

\* The feed emits an event: every loop that iterates a stream handles it.
FeedEvent ==
    /\ probe.loops > 0
    /\ probe.delivered < MaxEvents
    /\ probe' = [probe EXCEPT !.delivered = @ + 1, !.handled = @ + probe.loops]
    /\ UNCHANGED <<consumer, registry, lastPostedContent,
                   discordInitiatedSessions, userSessions, backend, posts, tasks,
                   responses, selection>>

\* The iteration of a stream throws: the loop is left through the outer
\* catch, which sets the retry timer.
FeedThrow ==
    /\ probe.loops > 0
    /\ probe.retries < MaxRetries
    /\ probe' = [probe EXCEPT !.loops = @ - 1, !.timers = @ + 1,
                              !.retries = @ + 1]
    /\ UNCHANGED <<consumer, registry, lastPostedContent,
                   discordInitiatedSessions, userSessions, backend, posts, tasks,
                   responses, selection>>

\* The stream ends: the loop is left and the function returns.
FeedEnd ==
    /\ probe.loops > 0
    /\ probe' = [probe EXCEPT !.loops = @ - 1]
    /\ UNCHANGED <<consumer, registry, lastPostedContent,
                   discordInitiatedSessions, userSessions, backend, posts, tasks,
                   responses, selection>>

\* The retry timer fires: startGlobalEventSubscription is called again.
FeedTimer ==
    /\ probe.timers > 0
    /\ probe' = [probe EXCEPT !.timers = @ - 1, !.subscribing = @ + 1]
    /\ UNCHANGED <<consumer, registry, lastPostedContent,
                   discordInitiatedSessions, userSessions, backend, posts, tasks,
                   responses, selection>>

(***************************************************************************)
(* The loop of the message splitter, one iteration a step.                 *)
(***************************************************************************)
InitLoop ==
    /\ InitSync
    /\ InitSelection
    /\ backend = NoSessions
    /\ \E text \in SplitTexts, maxLength \in 1..MaxLimit :
          probe = [asked |-> FALSE, text |-> text, maxLength |-> maxLength,
                   remaining |-> text, parts |-> <<>>, pc |-> "entry"]

\* if (text.length <= maxLength) return [text]; parts = []; remaining = text
SplitEntry ==
    /\ probe.pc = "entry"
    /\ probe' = IF Len(probe.text) <= probe.maxLength
                THEN [probe EXCEPT !.asked = TRUE, !.parts = <<probe.text>>,
                                   !.pc = "returned"]
                ELSE [probe EXCEPT !.asked = TRUE, !.pc = "loop"]
    /\ UNCHANGED <<consumer, registry, lastPostedContent,
                   discordInitiatedSessions, userSessions, backend, posts, tasks,
                   responses, selection>>

\* One test of the loop condition and, when it holds, one pass of the body.
SplitIteration ==
    /\ probe.pc = "loop"
    /\ probe' =
          IF Len(probe.remaining) = 0
          THEN [probe EXCEPT !.pc = "returned"]
          ELSE IF Len(probe.remaining) <= probe.maxLength
          THEN [probe EXCEPT !.parts = Append(@, probe.remaining),
                             !.pc = "returned"]
          ELSE LET index == splitIndex(probe.remaining, probe.maxLength)
               IN  [probe EXCEPT
                      !.parts = Append(@, slice(probe.remaining, 0, index)),
                      !.remaining = remainderAfter(probe.remaining, index)]
    /\ UNCHANGED <<consumer, registry, lastPostedContent,
                   discordInitiatedSessions, userSessions, backend, posts, tasks,
                   responses, selection>>

(***************************************************************************)
(* The messages of one mirrored exchange and of one answered reply, segment *)
(* by segment, over texts around one and two segment limits.               *)
(***************************************************************************)
\* splitMessage(userContent, 1900)
postLimit == 1900

\* `**User:**\n`
userLabel == <<"*", "*", "U", "s", "e", "r", ":", "*", "*", "\n">>

\* `**Assistant:**\n`
assistantLabel ==
    <<"*", "*", "A", "s", "s", "i", "s", "t", "a", "n", "t", ":", "*", "*", "\n">>

\* '*No response from AI*'
noResponse ==
    <<"*", "N", "o", " ", "r", "e", "s", "p", "o", "n", "s", "e", " ",
      "f", "r", "o", "m", " ", "A", "I", "*">>

\* Variant: the text is sent in one piece.
labelledPartsUnsplit(label, text) ==
    IF text = <<>> THEN <<>> ELSE <<label \o text>>

\* Variant: every segment carries the label.
labelledPartsEach(label, text) ==
    IF text = <<>> THEN <<>>
    ELSE LET parts == splitMessage(text, postLimit)
         IN  [i \in 1..Len(parts) |-> label \o parts[i]]

\* if (text) { parts = splitMessage(text, 1900); i === 0 ? label + part : part }
labelledParts(label, text) ==
    IF text = <<>> THEN <<>>
    ELSE LET parts == splitMessage(text, postLimit)
         IN  [i \in 1..Len(parts) |->
                 IF i = 1 THEN label \o parts[i] ELSE parts[i]]

\* The contents the loops send, in the order of the awaits: postToSyncThread
\* for a mirrored exchange, the answer of handleSyncThreadReply for a reply.
outbox(kind, userContent, assistantContent) ==
    IF kind = "mirror"
    THEN labelledParts(userLabel, userContent)
         \o labelledParts(assistantLabel, assistantContent)
    ELSE IF assistantContent # <<>>
         THEN labelledParts(assistantLabel, assistantContent)
         ELSE <<noResponse>>

Fill(n, ch) == [i \in 1..n |-> ch]

\* Lengths below, at and above one and two segment limits.
PostLengths == {0, 1, postLimit, postLimit + 1, 2 * postLimit + 1}

PostUserTexts ==
    {Fill(n, "u") : n \in PostLengths}
    \cup {Fill(1500, "u") \o <<" ">> \o Fill(1500, "v")}

PostAsstTexts ==
    {Fill(n, "a") : n \in PostLengths}
    \cup {Fill(1500, "a") \o <<"\n">> \o Fill(1500, "b")}

InitPost ==
    /\ InitSync
    /\ InitSelection
    /\ backend = NoSessions
    /\ \/ \E userContent \in PostUserTexts, assistantContent \in PostAsstTexts :
             probe = [asked |-> FALSE, kind |-> "mirror",
                      userContent |-> userContent,
                      assistantContent |-> assistantContent,
                      sent |-> <<>>, pc |-> "fetch", result |-> "pending"]
       \/ \E fullResponse \in PostAsstTexts :
             probe = [asked |-> FALSE, kind |-> "reply",
                      userContent |-> <<>>,
                      assistantContent |-> fullResponse,
                      sent |-> <<>>, pc |-> "send", result |-> "pending"]

\* postToSyncThread: client.channels.fetch resolves with the thread, or
\* fails; with both texts empty the function returns true at once.
PostFetch(ok) ==
    /\ probe.kind = "mirror"
    /\ probe.pc = "fetch"
    /\ probe' =
          IF ~ok
          THEN [probe EXCEPT !.asked = TRUE, !.pc = "done", !.result = "false"]
          ELSE IF outbox(probe.kind, probe.userContent,
                         probe.assistantContent) = <<>>
          THEN [probe EXCEPT !.asked = TRUE, !.pc = "done", !.result = "true"]
          ELSE [probe EXCEPT !.asked = TRUE, !.pc = "send"]
    /\ UNCHANGED <<consumer, registry, lastPostedContent,
                   discordInitiatedSessions, userSessions, backend, posts, tasks,
                   responses, selection>>

\* One thread.send or channel.send of the loops: the next content is posted,
\* or the send throws and the catch ends the function.
PostSend(ok) ==
    /\ probe.pc = "send"
    /\ LET queue == outbox(probe.kind, probe.userContent,
                           probe.assistantContent)
           k     == Len(probe.sent) + 1
       IN  probe' =
              IF ~ok
              THEN [probe EXCEPT !.asked = TRUE, !.pc = "done",
                                 !.result = IF probe.kind = "mirror"
                                            THEN "false" ELSE "error"]
              ELSE [probe EXCEPT !.asked = TRUE,
                                 !.sent = Append(@, queue[k]),
                                 !.pc = IF k = Len(queue) THEN "done" ELSE "send",
                                 !.result = IF k = Len(queue) THEN "true" ELSE @]
    /\ UNCHANGED <<consumer, registry, lastPostedContent,
                   discordInitiatedSessions, userSessions, backend, posts, tasks,
                   responses, selection>>

(***************************************************************************)
(* Specifications.                                                         *)
(***************************************************************************)
\* The mirror core: backend, chat-side creation, event consumer and the
\* deferred idle handlers.
Next ==
    \/ \E s \in Sessions : TerminalCreate(s)
    \/ \E s \in Sessions, u \in UserTexts, a \in AsstTexts : BackendPrompt(s, u, a)
    \/ \E s \in Sessions : BackendDelete(s)
    \/ \E userId \in Users, s \in Sessions : ChatCreate(userId, s)
    \/ Ready
    \/ SubscribeOk
    \/ SubscribeFail
    \/ StreamThrow
    \/ StreamEnd
    \/ RetryTimer
    \/ \E e \in FeedEvents : StreamEvent(e)
    \/ \E i \in 1..MaxTasks : IdleStart(i)
    \/ \E i \in 1..MaxTasks, ok \in BOOLEAN : IdleMessages(i, ok)
    \/ \E i \in 1..MaxTasks, ok \in BOOLEAN : CreateStarter(i, ok)
    \/ \E i \in 1..MaxTasks, ok \in BOOLEAN : CreateStartThread(i, ok)
    \/ \E i \in 1..MaxTasks, ok \in BOOLEAN : PostFetchThread(i, ok)
    \/ \E i \in 1..MaxTasks, ok \in BOOLEAN : PostSendUser(i, ok)
    \/ \E i \in 1..MaxTasks, ok \in BOOLEAN : PostSendAssistant(i, ok)

Spec == Init /\ [][Next]_vars

\* One terminal session: the event consumer with all its failures and the
\* idle handlers, under the scheduling the runtime guarantees: a pending
\* retry timer fires, and a subscription attempt gets its answer.  That the
\* backend accepts a subscription in the end is the hypothesis of the
\* reconnection claim; it is stated as strong fairness of SubscribeOk.
NextLive ==
    \/ TerminalCreate("s1")
    \/ \E u \in UserTexts, a \in AsstTexts : BackendPrompt("s1", u, a)
    \/ BackendDelete("s1")
    \/ Ready
    \/ SubscribeOk
    \/ SubscribeFail
    \/ StreamThrow
    \/ StreamEnd
    \/ RetryTimer
    \/ \E e \in FeedEvents : StreamEvent(e)
    \/ \E i \in 1..MaxTasks : IdleStart(i)
    \/ \E i \in 1..MaxTasks, ok \in BOOLEAN : IdleMessages(i, ok)
    \/ \E i \in 1..MaxTasks, ok \in BOOLEAN : CreateStarter(i, ok)
    \/ \E i \in 1..MaxTasks, ok \in BOOLEAN : CreateStartThread(i, ok)
    \/ \E i \in 1..MaxTasks, ok \in BOOLEAN : PostFetchThread(i, ok)
    \/ \E i \in 1..MaxTasks, ok \in BOOLEAN : PostSendUser(i, ok)
    \/ \E i \in 1..MaxTasks, ok \in BOOLEAN : PostSendAssistant(i, ok)

SpecLive ==
    /\ Init
    /\ [][NextLive]_vars
    /\ WF_vars(RetryTimer)
    /\ WF_vars(SubscribeOk \/ SubscribeFail)
    /\ SF_vars(SubscribeOk)

\* One terminal session whose thread is created through the webhook and
\* whose prompts come from replies in that thread.
NextReply ==
    \/ TerminalCreate("s1")
    \/ SyncSessionRequest("s1")
    \/ Ready
    \/ SubscribeOk
    \/ \E e \in FeedEvents : StreamEvent(e)
    \/ \E i \in 1..MaxTasks : IdleStart(i)
    \/ \E i \in 1..MaxTasks, ok \in BOOLEAN : IdleMessages(i, ok)
    \/ \E i \in 1..MaxTasks, ok \in BOOLEAN : CreateStarter(i, ok)
    \/ \E i \in 1..MaxTasks, ok \in BOOLEAN : CreateStartThread(i, ok)
    \/ \E i \in 1..MaxTasks, ok \in BOOLEAN : PostFetchThread(i, ok)
    \/ \E i \in 1..MaxTasks, ok \in BOOLEAN : PostSendUser(i, ok)
    \/ \E i \in 1..MaxTasks, ok \in BOOLEAN : PostSendAssistant(i, ok)
    \/ \E t \in 1..MaxThreads, content \in UserTexts : ThreadReply(t, content)
    \/ \E i \in 1..MaxTasks, ok \in BOOLEAN : ReplyTyping(i, ok)
    \/ \E i \in 1..MaxTasks, ok \in BOOLEAN, a \in AsstTexts : ReplyPrompt(i, ok, a)
    \/ \E i \in 1..MaxTasks, ok \in BOOLEAN : ReplySendResponse(i, ok)
    \/ \E i \in 1..MaxTasks, ok \in BOOLEAN : ReplySendError(i, ok)

SpecReply == Init /\ [][NextReply]_vars

\* The reply handler called for any thread id, bound or not, next to the
\* webhook that binds threads.
NextForward ==
    \/ TerminalCreate("s1")
    \/ SyncSessionRequest("s1")
    \/ \E i \in 1..MaxTasks, ok \in BOOLEAN : CreateStarter(i, ok)
    \/ \E i \in 1..MaxTasks, ok \in BOOLEAN : CreateStartThread(i, ok)
    \/ \E t \in 1..MaxThreads, content \in UserTexts :
          handleSyncThreadReply(t, content)
    \/ \E i \in 1..MaxTasks, ok \in BOOLEAN : ReplyTyping(i, ok)
    \/ \E i \in 1..MaxTasks, ok \in BOOLEAN, a \in AsstTexts : ReplyPrompt(i, ok, a)
    \/ \E i \in 1..MaxTasks, ok \in BOOLEAN : ReplySendResponse(i, ok)
    \/ \E i \in 1..MaxTasks, ok \in BOOLEAN : ReplySendError(i, ok)

SpecForward == Init /\ [][NextForward]_vars

\* Replies in the thread of a session that is deleted at the backend: the
\* webhook binds the thread, the feed delivers the deletion.
NextLate ==
    \/ TerminalCreate("s1")
    \/ BackendDelete("s1")
    \/ SyncSessionRequest("s1")
    \/ \E i \in 1..MaxTasks, ok \in BOOLEAN : CreateStarter(i, ok)
    \/ \E i \in 1..MaxTasks, ok \in BOOLEAN : CreateStartThread(i, ok)
    \/ Ready
    \/ SubscribeOk
    \/ StreamEvent(DeletedEvent("s1"))
    \/ \E t \in 1..MaxThreads, content \in UserTexts : ThreadReply(t, content)
    \/ \E i \in 1..MaxTasks, ok \in BOOLEAN : ReplyTyping(i, ok)
    \/ \E i \in 1..MaxTasks, ok \in BOOLEAN, a \in AsstTexts : ReplyPrompt(i, ok, a)
    \/ \E i \in 1..MaxTasks, ok \in BOOLEAN : ReplySendResponse(i, ok)
    \/ \E i \in 1..MaxTasks, ok \in BOOLEAN : ReplySendError(i, ok)

SpecLate == Init /\ [][NextLate]_vars

\* The exchange extractor over arbitrary message lists.
NextExchange == \E s \in Sessions : LatestExchange(s)

SpecExchange == InitExchange /\ [][NextExchange]_vars

\* The model menu and its pages over model lists of every length.
InitPage ==
    /\ InitSync
    /\ backend = NoSessions
    /\ probe = [asked |-> FALSE]
    /\ modelButtonMaps = <<>>
    /\ userModels = EmptyMap
    /\ menus = EmptyMap
    /\ now = 0
    /\ \E n \in 0..MaxModels : available = ModelList(n)
    /\ interactions = 0

NextPage ==
    \/ \E userId \in Users, ok \in BOOLEAN : ModelsCommand(userId, <<>>, ok)
    \/ \E userId \in Users, m \in 1..MaxInteractions, page \in 0..(MaxModels \div pageSize),
           ok \in BOOLEAN : PageClick(userId, m, page, ok)
    \/ \E i \in 1..MaxTasks, ok \in BOOLEAN : MenuStored(i, ok)

SpecPage == InitPage /\ [][NextPage]_vars

\* Model selection from several menus while the clock runs.
Filters == {<<>>, <<"1">>}

InitMenu ==
    /\ InitSync
    /\ backend = NoSessions
    /\ probe = [asked |-> FALSE]
    /\ modelButtonMaps = <<>>
    /\ userModels = EmptyMap
    /\ menus = EmptyMap
    /\ now = 0
    /\ available = ModelList(2)
    /\ interactions = 0

NextMenu ==
    \/ \E userId \in Users, filter \in Filters, ok \in BOOLEAN :
          ModelsCommand(userId, filter, ok)
    \/ \E i \in 1..MaxTasks, ok \in BOOLEAN : MenuStored(i, ok)
    \/ \E id \in 1..MaxInteractions : ExpireTimer(id)
    \/ Tick
    \/ \E userId \in Users, m \in 1..MaxInteractions, idx \in 0..1, ok \in BOOLEAN :
          SelectClick(userId, m, idx, ok)

SpecMenu == InitMenu /\ [][NextMenu]_vars

\* The message splitter over arbitrary texts and limits.
NextSplit == SplitApply

SpecSplit == InitSplit /\ [][NextSplit]_vars

\* The two webhook endpoints next to the consumer, its mirror attempts and
\* a session created from the chat side.
NextSync ==
    \/ TerminalCreate("s1")
    \/ \E a \in AsstTexts : BackendPrompt("s1", <<"u">>, a)
    \/ SyncSessionRequest("s1")
    \/ \E sessionId \in MessageSessions, threadId \in MessageThreads,
          userContent \in MessageUserTexts, assistantContent \in AsstTexts :
          SyncMessageRequest(sessionId, threadId, userContent, assistantContent)
    \/ \E i \in 1..MaxTasks, ok \in BOOLEAN : SyncMessageFetch(i, ok)
    \/ \E i \in 1..MaxTasks, ok \in BOOLEAN : SyncMessageSendUser(i, ok)
    \/ \E i \in 1..MaxTasks, ok \in BOOLEAN : SyncMessageSendAssistant(i, ok)
    \/ Ready
    \/ SubscribeOk
    \/ StreamEvent(IdleEvent("s1"))
    \/ \E i \in 1..MaxTasks : IdleStart(i)
    \/ \E i \in 1..MaxTasks, ok \in BOOLEAN : IdleMessages(i, ok)
    \/ \E i \in 1..MaxTasks, ok \in BOOLEAN : CreateStarter(i, ok)
    \/ \E i \in 1..MaxTasks, ok \in BOOLEAN : CreateStartThread(i, ok)
    \/ \E i \in 1..MaxTasks, ok \in BOOLEAN : PostFetchThread(i, ok)
    \/ \E i \in 1..MaxTasks, ok \in BOOLEAN : PostSendUser(i, ok)
    \/ \E i \in 1..MaxTasks, ok \in BOOLEAN : PostSendAssistant(i, ok)

SpecSync == Init /\ [][NextSync]_vars

\* Every entry point that can bind a thread: the consumer with idle and
\* deletion events, sessions created from the chat side and from the
\* terminal, and the session endpoint of the webhook.
NextBind ==
    \/ TerminalCreate("s1")
    \/ \E userId \in Users : ChatCreate(userId, "s2")
    \/ \E s \in Sessions, a \in AsstTexts : BackendPrompt(s, <<"u">>, a)
    \/ \E s \in Sessions : BackendDelete(s)
    \/ \E s \in Sessions : SyncSessionRequest(s)
    \/ Ready
    \/ SubscribeOk
    \/ \E s \in Sessions : StreamEvent(IdleEvent(s))
    \/ \E s \in Sessions : StreamEvent(DeletedEvent(s))
    \/ \E i \in 1..MaxTasks : IdleStart(i)
    \/ \E i \in 1..MaxTasks, ok \in BOOLEAN : IdleMessages(i, ok)
    \/ \E i \in 1..MaxTasks, ok \in BOOLEAN : CreateStarter(i, ok)
    \/ \E i \in 1..MaxTasks, ok \in BOOLEAN : CreateStartThread(i, ok)
    \/ \E i \in 1..MaxTasks, ok \in BOOLEAN : PostFetchThread(i, ok)
    \/ \E i \in 1..MaxTasks, ok \in BOOLEAN : PostSendUser(i, ok)
    \/ \E i \in 1..MaxTasks, ok \in BOOLEAN : PostSendAssistant(i, ok)

SpecBind == Init /\ [][NextBind]_vars

\* Messages of every kind of author, in direct messages and in the threads
\* the webhook binds, under either configuration of the allowlist.
InitGate ==
    /\ consumer = "NotStarted"
    /\ sessionToThread = EmptyMap
    /\ threadToSession = EmptyMap
    /\ subscribedThreads = {}
    /\ lastPostedContent = EmptyMap
    /\ discordInitiatedSessions = {}
    /\ userSessions = EmptyMap
    /\ backend = [s \in Sessions |-> [status |-> "none", messages |-> <<>>]]
    /\ posts = EmptyMap
    /\ tasks = [i \in 1..MaxTasks |-> FreeTask]
    /\ \E allowedUsers \in Allowlists :
          probe = [asked |-> FALSE, allowedUsers |-> allowedUsers,
                   gate |-> "none"]
    /\ responses = {}
    /\ modelButtonMaps = <<>>
    /\ userModels = EmptyMap
    /\ menus = EmptyMap
    /\ now = 0
    /\ available = <<>>
    /\ interactions = 0

NextGate ==
    \/ TerminalCreate("s1")
    \/ SyncSessionRequest("s1")
    \/ \E i \in 1..MaxTasks, ok \in BOOLEAN : CreateStarter(i, ok)
    \/ \E i \in 1..MaxTasks, ok \in BOOLEAN : CreateStartThread(i, ok)
    \/ \E author \in Authors, channel \in 0..MaxThreads,
          content \in MessageTexts \cup AsstTexts,
          mentioned \in BOOLEAN, early \in BOOLEAN :
          MessageCreate(author, channel, content, mentioned, early)
    \/ \E i \in 1..MaxTasks, okMember \in BOOLEAN, okRoles \in BOOLEAN :
          MessageAuth(i, okMember, okRoles)
    \/ \E i \in 1..MaxTasks, ok \in BOOLEAN : MessageFirstReply(i, ok)
    \/ \E i \in 1..MaxTasks, ok \in BOOLEAN : MessageDenyReply(i, ok)
    \/ \E i \in 1..MaxTasks, ok \in BOOLEAN : MessageReact(i, ok)
    \/ \E i \in 1..MaxTasks, ok \in BOOLEAN : ReplyTyping(i, ok)
    \/ \E i \in 1..MaxTasks, ok \in BOOLEAN, a \in AsstTexts : ReplyPrompt(i, ok, a)
    \/ \E i \in 1..MaxTasks, ok \in BOOLEAN : ReplySendResponse(i, ok)
    \/ \E i \in 1..MaxTasks, ok \in BOOLEAN : ReplySendError(i, ok)
    \/ \E i \in 1..MaxTasks, ok \in BOOLEAN : DmReact(i, ok)
    \/ \E i \in 1..MaxTasks, ok \in BOOLEAN : ChatSessionCreate(i, ok, "s2")
    \/ \E i \in 1..MaxTasks : DmCreated(i)
    \/ \E i \in 1..MaxTasks, ok \in BOOLEAN : DmTyping(i, ok)
    \/ \E i \in 1..MaxTasks, ok \in BOOLEAN, a \in AsstTexts : DmPrompt(i, ok, a)
    \/ \E i \in 1..MaxTasks, ok \in BOOLEAN : DmReply(i, ok)

SpecGate == InitGate /\ [][NextGate]_vars

\* The subscriptions to the event feed, counted.
NextFeed ==
    \/ \E guild \in BOOLEAN : FeedReady(guild)
    \/ \E ok \in BOOLEAN : FeedSubscribed(ok)
    \/ FeedEvent
    \/ FeedThrow
    \/ FeedEnd
    \/ FeedTimer

SpecFeed == InitFeed /\ [][NextFeed]_vars

\* The loop of the splitter; a call that has started runs on.
NextLoop == SplitEntry \/ SplitIteration

SpecLoop == InitLoop /\ [][NextLoop]_vars /\ WF_vars(NextLoop)

\* Sessions created by the chat side, their prompts, and the consumer with
\* the idle handlers next to them.
NextChat ==
    \/ \E userId \in Users : NewCommand(userId)
    \/ \E i \in 1..MaxTasks, ok \in BOOLEAN : NewDefer(i, ok)
    \/ \E i \in 1..MaxTasks, ok \in BOOLEAN, s \in Sessions :
          ChatSessionCreate(i, ok, s)
    \/ \E i \in 1..MaxTasks : NewCreated(i)
    \/ \E i \in 1..MaxTasks : NewEditReply(i)
    \/ \E userId \in Users : DmMessage(userId, <<"u">>)
    \/ \E i \in 1..MaxTasks, ok \in BOOLEAN : DmReact(i, ok)
    \/ \E i \in 1..MaxTasks : DmCreated(i)
    \/ \E i \in 1..MaxTasks, ok \in BOOLEAN : DmTyping(i, ok)
    \/ \E i \in 1..MaxTasks, ok \in BOOLEAN, a \in AsstTexts : DmPrompt(i, ok, a)
    \/ \E i \in 1..MaxTasks, ok \in BOOLEAN : DmReply(i, ok)
    \/ \E s \in Sessions : BackendDelete(s)
    \/ Ready
    \/ SubscribeOk
    \/ \E e \in FeedEvents : StreamEvent(e)
    \/ \E i \in 1..MaxTasks : IdleStart(i)
    \/ \E i \in 1..MaxTasks, ok \in BOOLEAN : IdleMessages(i, ok)
    \/ \E i \in 1..MaxTasks, ok \in BOOLEAN : CreateStarter(i, ok)
    \/ \E i \in 1..MaxTasks, ok \in BOOLEAN : CreateStartThread(i, ok)
    \/ \E i \in 1..MaxTasks, ok \in BOOLEAN : PostFetchThread(i, ok)
    \/ \E i \in 1..MaxTasks, ok \in BOOLEAN : PostSendUser(i, ok)
    \/ \E i \in 1..MaxTasks, ok \in BOOLEAN : PostSendAssistant(i, ok)

SpecChat == Init /\ [][NextChat]_vars

\* The consumer and the idle handlers over a session whose message list is
\* given.
NextLazy ==
    \/ Ready
    \/ SubscribeOk
    \/ \E e \in FeedEvents : StreamEvent(e)
    \/ \E i \in 1..MaxTasks : IdleStart(i)
    \/ \E i \in 1..MaxTasks, ok \in BOOLEAN : IdleMessages(i, ok)
    \/ \E i \in 1..MaxTasks, ok \in BOOLEAN : CreateStarter(i, ok)
    \/ \E i \in 1..MaxTasks, ok \in BOOLEAN : CreateStartThread(i, ok)
    \/ \E i \in 1..MaxTasks, ok \in BOOLEAN : PostFetchThread(i, ok)
    \/ \E i \in 1..MaxTasks, ok \in BOOLEAN : PostSendUser(i, ok)
    \/ \E i \in 1..MaxTasks, ok \in BOOLEAN : PostSendAssistant(i, ok)

SpecLazy == InitLazy /\ [][NextLazy]_vars

\* The sends of one mirrored exchange or one answered reply.
NextPost ==
    \/ \E ok \in BOOLEAN : PostFetch(ok)
    \/ \E ok \in BOOLEAN : PostSend(ok)

SpecPost == InitPost /\ [][NextPost]_vars

\* The dedup decision and the ledger write over arbitrary ledgers.
NextDedup ==
    \/ \E s \in Sessions, u \in ProbeUserTexts, a \in ProbeAsstTexts :
          DedupDecide(s, u, a)
    \/ \E s \in Sessions, u \in ProbeUserTexts, a \in ProbeAsstTexts :
          DedupRecord(s, u, a)

SpecDedup == InitDedup /\ [][NextDedup]_vars

(***************************************************************************)
(* Properties.                                                             *)
(***************************************************************************)
threadsOf(s) == {t \in DOMAIN threadToSession : threadToSession[t] = s}

mirrorUnits(t) == {unit \in DOMAIN posts[t] : unit.via = "mirror"}

\* C1: over any sequence of idle events for a session whose latest exchange
\* stays the same, the exchange is posted to the session's thread at most
\* once: no unit of one exchange is mirrored twice into one thread.
C1_PostedAtMostOnce ==
    \A t \in DOMAIN posts : \A unit \in mirrorUnits(t) : posts[t][unit] <= 1

C3_OneThreadPerSession ==
    \A s \in Sessions : Cardinality(threadsOf(s)) <= 1

\* C4: first binding wins: a bind for an already bound sessionId changes
\* nothing, getThread keeps returning the thread of the first bind.
C4_FirstBindingWins ==
    [][\A s \in DOMAIN sessionToThread :
          s \in DOMAIN sessionToThread'
             => sessionToThread'[s] = sessionToThread[s]]_vars

\* C5: processing session.deleted for S removes S's forward mapping, ledger
\* entry and provenance membership and leaves the reverse mapping unchanged,
\* so every thread of S still resolves to S.
C5_DeletedCleanup ==
    [][\A s \in Sessions :
          StreamEvent(DeletedEvent(s))
             => /\ s \notin DOMAIN sessionToThread'
                /\ s \notin DOMAIN lastPostedContent'
                /\ s \notin discordInitiatedSessions'
                /\ threadToSession' = threadToSession
                /\ \A t \in threadsOf(s) : t \in DOMAIN threadToSession'
                                             /\ threadToSession'[t] = s]_vars

\* The deletion of a session bound to a thread has been processed.
C5_Witness ==
    \E s \in Sessions :
        /\ backend[s].status = "deleted"
        /\ s \notin DOMAIN sessionToThread
        /\ threadsOf(s) # {}

\* C6: the response to a reply forwarded from a thread appears in the thread
\* exactly once: the idle event that follows the forwarded prompt does not
\* make the consumer mirror that same exchange into the thread.
C6_ReplyAnsweredOnce ==
    \A t \in DOMAIN posts : \A unit \in DOMAIN posts[t] :
        (unit.via = "reply" /\ unit.label = "Assistant")
           => Unit("Assistant", unit.text, "mirror", unit.n) \notin DOMAIN posts[t]

\* C7: whenever the subscription call fails or the feed iteration throws,
\* the subscription entrypoint is invoked again after the delay, without a
\* limit on the retries, so the consumer is eventually Connected again.
C7_Reconnects ==
    (consumer \in {"Subscribing", "Reconnecting"}) ~> (consumer = "Connected")

\* The feed iteration threw after events had been handled: a retry is pending.
C7_Witness ==
    /\ consumer = "Reconnecting"
    /\ \E i \in 1..MaxTasks : tasks[i].kind = "idle"

\* C8: when the feed iteration ends without throwing, the consumer goes to
\* Reconnecting: it leaves Connected only towards Reconnecting.
C8_EndReconnects ==
    [][(consumer = "Connected" /\ consumer' # "Connected")
          => consumer' = "Reconnecting"]_vars

\* A failure while one event is classified or inside one mirror attempt.
HandlerFailure ==
    \/ StreamEvent(Event("session.status", BadId, None, "idle"))
    \/ \E i \in 1..MaxTasks :
          \/ IdleMessages(i, FALSE)
          \/ CreateStarter(i, FALSE)
          \/ CreateStartThread(i, FALSE)
          \/ PostFetchThread(i, FALSE)
          \/ PostSendUser(i, FALSE)
          \/ PostSendAssistant(i, FALSE)

\* C9: a failure while classifying one event or inside one mirror attempt
\* never ends the subscription loop and never triggers Reconnecting: the
\* step leaves the consumer where it is, a Connected consumer stays Connected.
C9_HandlerFailuresContained ==
    [][HandlerFailure
          => consumer' = consumer]_vars

\* A post failed (the ledger is written, the thread is empty) and the
\* consumer is still Connected.
C9_Witness ==
    /\ consumer = "Connected"
    /\ \E s \in DOMAIN sessionToThread :
          /\ s \in DOMAIN lastPostedContent
          /\ posts[sessionToThread[s]] = EmptyMap

\* C10: the dedup decision suppresses a post if and only if the ledger has an
\* entry for the sessionId whose userContent and assistantContent both equal
\* the given texts.
C10_DedupDecision ==
    probe.asked =>
        (probe.suppressed <=>
            \E s \in DOMAIN lastPostedContent :
                /\ s = probe.sessionId
                /\ lastPostedContent[s] =
                      [userContent |-> probe.userContent,
                       assistantContent |-> probe.assistantContent])

\* The post is allowed although the session's entry has the same assistant
\* text (the user text differs) and another session has the equal entry.
C10_Witness ==
    /\ probe.asked
    /\ ~probe.suppressed
    /\ probe.sessionId \in DOMAIN lastPostedContent
    /\ lastPostedContent[probe.sessionId].assistantContent = probe.assistantContent
    /\ lastPostedContent[probe.sessionId].userContent # probe.userContent
    /\ \E s \in DOMAIN lastPostedContent :
          /\ s # probe.sessionId
          /\ lastPostedContent[s] = [userContent |-> probe.userContent,
                                     assistantContent |-> probe.assistantContent]

\* A post attempt failed: the thread could not be fetched or a send threw.
PostFailure ==
    \E i \in 1..MaxTasks :
        \/ PostFetchThread(i, FALSE)
        \/ PostSendUser(i, FALSE)
        \/ PostSendAssistant(i, FALSE)

\* C11: the ledger entry of a session is overwritten only after the exchange
\* was successfully posted: when the post fails (thread not fetchable or a
\* send fails), the ledger keeps its previous value.
C11_LedgerOnlyAfterPost ==
    [][PostFailure => lastPostedContent' = lastPostedContent]_vars

\* C19: POST /sync/session is idempotent: all successful responses for one
\* sessionId, overlapping requests included, carry the same threadId, and at
\* most one thread exists for the session.
C19_SyncSessionIdempotent ==
    /\ \A r1 \in responses : \A r2 \in responses :
          r1.sessionId = r2.sessionId => r1.threadId = r2.threadId
    /\ \A r \in responses : Cardinality(threadsOf(r.sessionId)) = 1

\* C20: the reply handler called for a thread id without a session sends
\* nothing to the backend, posts nothing, starts nothing and changes no
\* registry, ledger or provenance state; it only reports the error.
C20_UnboundReplyIsNoOp ==
    [][\A t \in 1..MaxThreads : \A content \in UserTexts :
          (t \notin DOMAIN threadToSession /\ handleSyncThreadReply(t, content))
             => /\ backend' = backend
                /\ posts' = posts
                /\ tasks' = tasks
                /\ registry' = registry
                /\ lastPostedContent' = lastPostedContent
                /\ discordInitiatedSessions' = discordInitiatedSessions
                /\ probe'.error = "No session found for thread"]_vars

\* The error was reported for an unbound thread while another thread is
\* bound and a reply to it is in flight.
C20_Witness ==
    /\ probe.asked
    /\ probe.threadId \notin DOMAIN threadToSession
    /\ threadToSession # EmptyMap
    /\ \E i \in 1..MaxTasks : tasks[i].kind = "reply"

\* C12: getLatestExchange returns the pair (last user message that precedes
\* the last assistant message, last assistant message) for every list that
\* has one, in particular the final pair of a list ending in [user,
\* assistant]; it returns null when the list has no assistant message or no
\* user message precedes the last assistant message.
C12_LatestExchange ==
    probe.asked =>
        LET messages   == backend[probe.sessionId].messages
            n          == Len(messages)
            assistants == {i \in 1..n : messages[i].role = "assistant"}
            before     == {i \in 1..n : /\ messages[i].role = "user"
                                         /\ assistants # {}
                                         /\ i < Max(assistants)}
        IN  /\ (assistants = {} \/ before = {}) => ~probe.exchange.found
            /\ (assistants # {} /\ before # {})
                  => /\ probe.exchange.found
                     /\ probe.exchange.userMessage = messages[Max(before)]
                     /\ probe.exchange.assistantMessage = messages[Max(assistants)]
            /\ (n >= 2 /\ messages[n].role = "assistant"
                       /\ messages[n - 1].role = "user")
                  => /\ probe.exchange.found
                     /\ probe.exchange.userMessage = messages[n - 1]
                     /\ probe.exchange.assistantMessage = messages[n]

\* An exchange was extracted from a list that goes on with a user message
\* after the last assistant message and has an older assistant message.
C12_Witness ==
    /\ probe.asked
    /\ probe.exchange.found
    /\ LET messages == backend[probe.sessionId].messages
       IN  /\ Len(messages) = 4
           /\ messages[4].role = "user"
           /\ messages[1].role = "assistant"
           /\ probe.exchange.userMessage = messages[2]
           /\ probe.exchange.assistantMessage = messages[3]

\* The number of buttons in the rows above row r.
RECURSIVE buttonsAbove(_, _)
buttonsAbove(rows, r) ==
    IF r <= 1 THEN 0 ELSE Len(rows[r - 1]) + buttonsAbove(rows, r - 1)

menuLive(m) ==
    /\ m \in DOMAIN menus
    /\ \E k \in 1..Len(modelButtonMaps) :
          modelButtonMaps[k].interactionId = menus[m].interaction

\* The candidate menu m shows at index idx.
shownModel(m, idx) ==
    LET rows == menus[m].rows
        at   == CHOOSE rc \in {<<r, c>> : r \in DOMAIN rows, c \in 1..5} :
                    /\ rc[2] \in DOMAIN rows[rc[1]]
                    /\ rows[rc[1]][rc[2]].index = idx
    IN  rows[at[1]][at[2]].model

\* C14: selection stores of different owner keys are independent: a
\* selection event from a live menu resolves to the candidate this menu
\* rendered at that index, also when another live menu uses the same index
\* for another candidate.
C14_NoCrossTalk ==
    [][\A userId \in Users, m \in 1..MaxInteractions, idx \in 0..1, ok \in BOOLEAN :
          (menuLive(m) /\ SelectClick(userId, m, idx, ok))
             => /\ probe'.outcome = "changed"
                /\ probe'.model = shownModel(m, idx)]_vars

\* C15: a selection event from a menu rendered more than 10 minutes earlier
\* never resolves to a candidate and never changes the user's model
\* preference; it is reported as expired.
C15_ExpiredUnusable ==
    [][\A userId \in Users, m \in 1..MaxInteractions, idx \in 0..1, ok \in BOOLEAN :
          (/\ m \in DOMAIN menus
           /\ now - menus[m].at > 10
           /\ SelectClick(userId, m, idx, ok))
             => /\ probe'.outcome = "expired"
                /\ userModels' = userModels]_vars

RECURSIVE concat(_)
concat(parts) == IF parts = <<>> THEN <<>> ELSE Head(parts) \o concat(Tail(parts))

\* text is parts[1] w1 parts[2] w2 ... parts[n] wn with whitespace-only wi.
RECURSIVE interleaved(_, _)
interleaved(text, parts) ==
    IF parts = <<>> THEN \A i \in 1..Len(text) : text[i] \in Whitespace
    ELSE LET p == Head(parts)
         IN  /\ Len(p) <= Len(text)
             /\ SubSeq(text, 1, Len(p)) = p
             /\ \E k \in 0..(Len(text) - Len(p)) :
                   /\ \A i \in (Len(p) + 1)..(Len(p) + k) : text[i] \in Whitespace
                   /\ interleaved(SubSeq(text, Len(p) + k + 1, Len(text)),
                                  Tail(parts))

\* C16: for every input text and every limit of at least 1, no segment the
\* splitter returns is longer than the limit.
C16_SegmentsWithinLimit ==
    probe.asked =>
        \A i \in 1..Len(probe.parts) : Len(probe.parts[i]) <= probe.maxLength

\* A text without newline or space is cut by force into three segments, the
\* first two as long as the limit.
C16_Witness ==
    /\ probe.asked
    /\ \A i \in 1..Len(probe.text) : probe.text[i] \in {"a", "b"}
    /\ Len(probe.parts) = 3
    /\ Len(probe.parts[1]) = probe.maxLength
    /\ Len(probe.parts[2]) = probe.maxLength
    /\ probe.maxLength >= 2

\* C17 as stated: for an input with no newlines or spaces the concatenation
\* of the segments is the original text; for any input it differs from the
\* original only by whitespace removed at segment boundaries.
C17_ConcatAsStated ==
    probe.asked =>
        /\ (\A i \in 1..Len(probe.text) : probe.text[i] \notin {"\n", " "})
              => concat(probe.parts) = probe.text
        /\ interleaved(probe.text, probe.parts)

\* C17, amended: for an input with no whitespace character at all (nothing
\* that trim removes: no newline, space or tab) the concatenation of the
\* segments is the original text; for any input it differs from the
\* original only by whitespace removed at segment boundaries.
C17_ConcatNoWhitespace ==
    probe.asked =>
        /\ (\A i \in 1..Len(probe.text) : probe.text[i] \notin Whitespace)
              => concat(probe.parts) = probe.text
        /\ interleaved(probe.text, probe.parts)

\* A text with whitespace inside was split in three, and whitespace was
\* removed at a boundary.
C17_Witness ==
    /\ probe.asked
    /\ Len(probe.parts) = 3
    /\ concat(probe.parts) # probe.text
    /\ \E i \in 1..Len(probe.text) : probe.text[i] \in {"a", "b"}

\* The latest index at or before maxLength where text has ch, -1 without
\* one; index 0 does not count, a cut there would give an empty segment.
latestAt(text, ch, maxLength) ==
    LET at == {i \in 1..maxLength : i < Len(text) /\ text[i + 1] = ch}
    IN  IF at = {} THEN -1 ELSE Max(at)

\* C18 as stated: a remaining text longer than the limit is cut at the
\* latest newline at or before the limit if there is one, otherwise at the
\* latest space at or before the limit, and by force at the limit only when
\* neither exists.
C18_CutAsStated ==
    (probe.asked /\ Len(probe.text) > probe.maxLength) =>
        LET newline == latestAt(probe.text, "\n", probe.maxLength)
            space   == latestAt(probe.text, " ", probe.maxLength)
            cut     == IF newline # -1 THEN newline
                       ELSE IF space # -1 THEN space
                       ELSE probe.maxLength
        IN  probe.parts[1] = SubSeq(probe.text, 1, cut)

\* C18, amended: a remaining text longer than the limit is cut at the latest
\* newline at or before the limit if that newline is not in the first half
\* of the limit, otherwise at the latest space at or before the limit if
\* that space is not in the first half, and by force at the limit otherwise.
C18_CutNotInFirstHalf ==
    (probe.asked /\ Len(probe.text) > probe.maxLength) =>
        LET newline == latestAt(probe.text, "\n", probe.maxLength)
            space   == latestAt(probe.text, " ", probe.maxLength)
            cut     == IF newline # -1 /\ 2 * newline >= probe.maxLength
                       THEN newline
                       ELSE IF space # -1 /\ 2 * space >= probe.maxLength
                       THEN space
                       ELSE probe.maxLength
        IN  probe.parts[1] = SubSeq(probe.text, 1, cut)

\* A newline in the first half of the limit was passed over and the text
\* was cut at a later space.
C18_Witness ==
    /\ probe.asked
    /\ Len(probe.text) > probe.maxLength
    /\ latestAt(probe.text, "\n", probe.maxLength) = 1
    /\ latestAt(probe.text, " ", probe.maxLength) = 3
    /\ Len(probe.parts[1]) = 3

\* One step of a forwarded thread reply: its entry or one of its awaits.
ForwardStep ==
    \/ \E t \in 1..MaxThreads, content \in UserTexts : ThreadReply(t, content)
    \/ \E i \in 1..MaxTasks, ok \in BOOLEAN :
          \/ ReplyTyping(i, ok)
          \/ ReplySendResponse(i, ok)
          \/ ReplySendError(i, ok)
          \/ \E a \in AsstTexts : ReplyPrompt(i, ok, a)

\* The threads a forward has written into, with its answer or its error.
repliedThreads ==
    {t \in DOMAIN posts : \E unit \in DOMAIN posts[t] : unit.via = "reply"}

\* C21: a forward of a thread reply, whether it succeeds or fails, leaves
\* the registry (both directions and the subscription), the ledger and the
\* provenance set as they are, and the thread it wrote into stays bound and
\* subscribed, so the same reply can be forwarded again.
C21_ForwardLeavesRegistry ==
    /\ [][ForwardStep
            => /\ registry' = registry
               /\ lastPostedContent' = lastPostedContent
               /\ discordInitiatedSessions' = discordInitiatedSessions]_vars
    /\ [](\A t \in repliedThreads :
             t \in DOMAIN threadToSession /\ t \in subscribedThreads)

\* A forward has failed and posted its error, another one has been answered,
\* and the session has a ledger entry and its thread.
C21_Witness ==
    \E t \in DOMAIN posts :
        /\ \E unit \in DOMAIN posts[t] :
              unit.via = "reply" /\ unit.label = "Error"
        /\ \E unit \in DOMAIN posts[t] :
              unit.via = "reply" /\ unit.label = "Assistant"
        /\ t \in DOMAIN threadToSession
        /\ threadToSession[t] \in DOMAIN lastPostedContent
        /\ threadToSession[t] \in DOMAIN sessionToThread

\* The units a step adds to thread t, as a bag.
added(t, unit) ==
    (IF unit \in DOMAIN posts'[t] THEN posts'[t][unit] ELSE 0) - copies(t, unit)

\* The step posts exactly one error text into thread t and nothing else
\* anywhere.
postsOneError(t) ==
    /\ DOMAIN posts' = DOMAIN posts
    /\ \E unit \in DOMAIN posts'[t] :
          /\ unit.label = "Error"
          /\ added(t, unit) = 1
          /\ \A other \in DOMAIN posts'[t] \ {unit} : added(t, other) = 0
    /\ \A x \in DOMAIN posts \ {t} : posts'[x] = posts[x]

\* A forward whose backend call failed: it waits to send the error text and
\* has no answer.
backendFailed(i) ==
    /\ IsAt(i, "reply", "sendError")
    /\ tasks[i].asst = <<>>
    /\ tasks[i].n = 0

\* C24 as stated: when the backend call of a forwarded reply fails, the
\* failure is caught, exactly one error message is posted into the same
\* thread, no assistant-labelled message is posted, and the handler ends
\* without an exception for its caller, whatever the platform does with the
\* error message.
C24_ErrorAlwaysPosted ==
    [][\A i \in 1..MaxTasks :
          /\ (\E a \in AsstTexts : ReplyPrompt(i, FALSE, a))
                => (posts' = posts /\ tasks'[i].pc = "sendError")
          /\ (backendFailed(i) /\ (\E ok \in BOOLEAN : ReplySendError(i, ok)))
                => (postsOneError(tasks[i].thread) /\ tasks'[i] = FreeTask)]_vars

\* C24, amended: when the backend call of a forwarded reply fails, the
\* failure is caught and nothing is posted by the failing call; when the
\* platform then accepts the error message, exactly one error message is
\* posted into the same thread, no assistant-labelled message is posted and
\* the handler ends; when the platform refuses the error message as well,
\* nothing is posted and the exception leaves the handler.
C24_ErrorPostedWhenAccepted ==
    [][\A i \in 1..MaxTasks :
          /\ (\E a \in AsstTexts : ReplyPrompt(i, FALSE, a))
                => (posts' = posts /\ tasks'[i].pc = "sendError")
          /\ (backendFailed(i) /\ ReplySendError(i, TRUE))
                => (postsOneError(tasks[i].thread) /\ tasks'[i] = FreeTask)
          /\ (backendFailed(i) /\ ReplySendError(i, FALSE))
                => posts' = posts]_vars

\* The error text of a failed backend call is in the thread, which has no
\* assistant-labelled message.
C24_Witness ==
    \E t \in DOMAIN posts :
        /\ \E unit \in DOMAIN posts[t] :
              unit.label = "Error" /\ unit.n = 0 /\ unit.via = "reply"
        /\ \A unit \in DOMAIN posts[t] : unit.label # "Assistant"
        /\ \A i \in 1..MaxTasks : tasks[i] = FreeTask

\* The events the classification passes over: not a status event with
\* status idle and a session id, not a deleted event with a session id.
ignoredEvent(e) ==
    /\ ~(e.type = "session.status" /\ e.sessionID # None /\ e.status = "idle")
    /\ ~(e.type = "session.deleted" /\ e.sessionId # None)

AllEvents ==
    OtherEvents
    \cup {IdleEvent(s) : s \in Sessions}
    \cup {BusyEvent(s) : s \in Sessions}
    \cup {DeletedEvent(s) : s \in Sessions}

\* C26: an event that is neither a status event with status idle and a
\* session id nor a deleted event with a session id (unknown type, busy
\* status, missing fields, the id in the other field) leaves the registry,
\* the ledger and the provenance set unchanged, schedules no mirror attempt
\* and leaves the consumer connected.
C26_OtherEventsIgnored ==
    [][\A e \in {x \in AllEvents : ignoredEvent(x)} :
          StreamEvent(e)
             => /\ registry' = registry
                /\ lastPostedContent' = lastPostedContent
                /\ discordInitiatedSessions' = discordInitiatedSessions
                /\ tasks' = tasks
                /\ consumer' = "Connected"]_vars

\* The consumer is connected, a session is bound, recorded in the ledger and
\* another one is marked, and a handler is free to be scheduled: an event
\* that is passed over has all of this to leave alone.
C26_Witness ==
    /\ consumer = "Connected"
    /\ sessionToThread # EmptyMap
    /\ lastPostedContent # EmptyMap
    /\ discordInitiatedSessions # {}
    /\ HasFreeTask
    /\ \E s \in Sessions : BusyEvent(s) \in FeedEvents

\* C28: thread creation updates the registry atomically with respect to
\* failure: when creation for session S succeeds with thread T, S maps to T,
\* T maps to S and T is subscribed; when the starter message or the thread
\* start fails, the forward mapping, the reverse mapping and the
\* subscription set do not change, nothing is posted, nothing is recorded in
\* the ledger and the attempt is over.
C28_CreationAtomic ==
    [][\A i \in 1..MaxTasks :
          /\ CreateStartThread(i, TRUE)
                => \E t \in DOMAIN posts' \ DOMAIN posts :
                      /\ tasks[i].sid \in DOMAIN sessionToThread'
                      /\ sessionToThread'[tasks[i].sid] = t
                      /\ t \in DOMAIN threadToSession'
                      /\ threadToSession'[t] = tasks[i].sid
                      /\ t \in subscribedThreads'
          /\ (CreateStarter(i, FALSE) \/ CreateStartThread(i, FALSE))
                => /\ registry' = registry
                   /\ posts' = posts
                   /\ lastPostedContent' = lastPostedContent
                   /\ tasks'[i] = FreeTask]_vars

\* A mirror attempt has just created and bound its thread: the thread is
\* subscribed and empty, and the ledger has no entry for the session yet.
C28_Witness ==
    \E i \in 1..MaxTasks :
        /\ IsAt(i, "idle", "fetchThread")
        /\ tasks[i].sid \in DOMAIN sessionToThread
        /\ sessionToThread[tasks[i].sid] = tasks[i].thread
        /\ threadToSession[tasks[i].thread] = tasks[i].sid
        /\ tasks[i].thread \in subscribedThreads
        /\ posts[tasks[i].thread] = EmptyMap
        /\ tasks[i].sid \notin DOMAIN lastPostedContent

\* The deleted event of the session of thread t has been processed: the
\* session is gone at the backend and has lost its forward mapping.
deletedProcessed(t) ==
    /\ t \in DOMAIN threadToSession
    /\ backend[threadToSession[t]].status = "deleted"
    /\ threadToSession[t] \notin DOMAIN sessionToThread

\* C30: after the deleted event for session S bound to thread T has been
\* processed, T still maps to S and is still subscribed, and a later reply
\* in T is not turned away locally: the handler starts for it under S, and
\* every forward that reaches the backend call makes it under the session
\* its thread maps to.
C30_DeletedStillResolves ==
    /\ [][\A t \in 1..MaxThreads, content \in UserTexts :
            (deletedProcessed(t) /\ ThreadReply(t, content))
               => /\ probe' = probe
                  /\ \E i \in 1..MaxTasks :
                        /\ tasks[i] = FreeTask
                        /\ IsAt(i, "reply", "typing")'
                        /\ tasks'[i].thread = t
                        /\ tasks'[i].sid = threadToSession[t]]_vars
    /\ [](\A t \in DOMAIN posts :
             /\ t \in DOMAIN threadToSession
             /\ t \in subscribedThreads)
    /\ [](\A i \in 1..MaxTasks :
             tasks[i].kind = "reply"
                => /\ tasks[i].thread \in DOMAIN threadToSession
                   /\ tasks[i].sid = threadToSession[tasks[i].thread])

\* The deleted event of a session has been processed and a reply in its
\* thread is at the backend call, under that session.
C30_Witness ==
    \E i \in 1..MaxTasks :
        /\ IsAt(i, "reply", "prompt")
        /\ deletedProcessed(tasks[i].thread)
        /\ tasks[i].sid = threadToSession[tasks[i].thread]

segmentsOf(text) == IF text = <<>> THEN <<>> ELSE splitMessage(text, postLimit)

\* C29: the messages of one post are the segments of the user text followed
\* by the segments of the assistant text, each text's segments in their
\* order, the first segment of each text behind its role label and the
\* others bare; an empty text contributes no message; a post that ends
\* early has sent a prefix of this sequence, a post that returns true all
\* of it.
C29_SegmentsInOrder ==
    probe.kind = "mirror" =>
        LET userParts      == segmentsOf(probe.userContent)
            assistantParts == segmentsOf(probe.assistantContent)
            nU             == Len(userParts)
            nA             == Len(assistantParts)
        IN  /\ Len(probe.sent) <= nU + nA
            /\ \A j \in 1..Len(probe.sent) :
                  probe.sent[j] =
                     IF j = 1 /\ nU > 0 THEN userLabel \o userParts[1]
                     ELSE IF j <= nU THEN userParts[j]
                     ELSE IF j = nU + 1 THEN assistantLabel \o assistantParts[1]
                     ELSE assistantParts[j - nU]
            /\ probe.result = "true" => Len(probe.sent) = nU + nA
            /\ probe.result = "false" => Len(probe.sent) < nU + nA \/ nU + nA = 0

\* A post of a three-segment user text and a two-segment assistant text has
\* returned true: five messages went out.
C29_Witness ==
    /\ probe.kind = "mirror"
    /\ probe.result = "true"
    /\ Len(segmentsOf(probe.userContent)) = 3
    /\ Len(segmentsOf(probe.assistantContent)) = 2
    /\ Len(probe.sent) = 5

\* The text of a message has nothing but whitespace.
blank(message) ==
    \A p \in 1..Len(message.parts) :
        message.parts[p].type = "text"
           => \A k \in 1..Len(message.parts[p].text) :
                 message.parts[p].text[k] \in Whitespace

\* The list has an assistant message and a user message before the last one.
completeExchange(messages) ==
    \E a \in 1..Len(messages) :
        /\ messages[a].role = "assistant"
        /\ \A later \in (a + 1)..Len(messages) : messages[later].role # "assistant"
        /\ \E u \in 1..(a - 1) : messages[u].role = "user"

\* The cases in which a session has nothing to mirror: the list is empty,
\* it has no complete exchange, both texts of the exchange are blank, or
\* the ledger holds the texts of the exchange.
nothingToMirror(s) ==
    LET messages == backend[s].messages
        exchange == getLatestExchange(messages)
    IN  \/ Len(messages) = 0
        \/ ~completeExchange(messages)
        \/ blank(exchange.userMessage) /\ blank(exchange.assistantMessage)
        \/ /\ s \in DOMAIN lastPostedContent
           /\ lastPostedContent[s] =
                 [userContent |-> trim(concatTextParts(exchange.userMessage.parts)),
                  assistantContent |->
                     trim(concatTextParts(exchange.assistantMessage.parts))]

\* C27: threads are created lazily: a mirror attempt that finds the message
\* list empty, no complete exchange, both texts empty, or the exchange in
\* the ledger ends at once, without a thread and without a post; a thread is
\* created only by an attempt that holds an exchange with a non-empty text
\* and that goes on to post it.
C27_LazyThreads ==
    /\ [][\A i \in 1..MaxTasks :
            /\ (\E ok \in BOOLEAN :
                   IdleMessages(i, ok) /\ nothingToMirror(tasks[i].sid))
                  => /\ tasks'[i] = FreeTask
                     /\ registry' = registry
                     /\ posts' = posts
            /\ (tasks[i].kind = "idle" /\ CreateStartThread(i, TRUE))
                  => /\ IsAt(i, "idle", "fetchThread")'
                     /\ tasks'[i].user # <<>> \/ tasks'[i].asst # <<>>]_vars
    /\ [][DOMAIN posts' # DOMAIN posts
            => \E i \in 1..MaxTasks : CreateStartThread(i, TRUE)]_vars
    /\ [](\A i \in 1..MaxTasks :
             (tasks[i].kind = "idle" /\ tasks[i].pc \in {"starter", "startThread"})
                => tasks[i].user # <<>> \/ tasks[i].asst # <<>>)

\* The exchange of a session is in its thread and in the ledger, a further
\* mirror attempt is at its decision, and there is one thread.
C27_Witness ==
    \E i \in 1..MaxTasks :
        /\ IsAt(i, "idle", "messages")
        /\ tasks[i].sid \in DOMAIN sessionToThread
        /\ tasks[i].sid \in DOMAIN lastPostedContent
        /\ nothingToMirror(tasks[i].sid)
        /\ posts[sessionToThread[tasks[i].sid]] # EmptyMap
        /\ Cardinality(DOMAIN posts) = 1

\* C22: every session created by the chat side (the /new command or the
\* first direct message of a user) is marked before a prompt is sent to it:
\* a prompt of the chat side goes to a marked session, or to one whose mark
\* the deleted event has taken away again; and an idle handler that starts
\* for a marked session ends at once: it fetches nothing, creates no thread
\* and posts nothing.
C22_ChatSessionsMarkedFirst ==
    /\ [][\A i \in 1..MaxTasks :
            /\ (\E ok \in BOOLEAN, a \in AsstTexts : DmPrompt(i, ok, a))
                  => \/ tasks[i].sid \in discordInitiatedSessions
                     \/ backend[tasks[i].sid].status = "deleted"
            /\ (IdleStart(i) /\ tasks[i].sid \in discordInitiatedSessions)
                  => /\ tasks'[i] = FreeTask
                     /\ registry' = registry
                     /\ posts' = posts
                     /\ lastPostedContent' = lastPostedContent]_vars
    /\ [](\A userId \in DOMAIN userSessions :
             \/ userSessions[userId] \in discordInitiatedSessions
             \/ backend[userSessions[userId]].status = "deleted")

\* A marked session has an exchange and no thread, and the handler of an
\* idle event for it is about to start.
C22_Witness ==
    \E i \in 1..MaxTasks :
        /\ IsAt(i, "idle", "timer")
        /\ tasks[i].sid \in discordInitiatedSessions
        /\ Len(backend[tasks[i].sid].messages) > 0
        /\ tasks[i].sid \notin DOMAIN sessionToThread
        /\ posts = EmptyMap

\* C25: a session that is marked chat-initiated stays marked in every later
\* state until a deleted event for that session is processed; no other step
\* removes it.
C25_ProvenancePermanent ==
    [][\A s \in discordInitiatedSessions :
          s \notin discordInitiatedSessions'
             => StreamEvent(DeletedEvent(s))]_vars

\* Two sessions are marked, the one the user has left behind as well as the
\* current one, and the earlier one has been prompted.
C25_Witness ==
    /\ discordInitiatedSessions = Sessions
    /\ \E s \in discordInitiatedSessions :
          /\ \A userId \in DOMAIN userSessions : userSessions[userId] # s
          /\ Len(backend[s].messages) > 0

\* C39: the splitter terminates for every text and every limit of at least
\* 1: every iteration that does not leave the loop makes the remaining text
\* shorter, the call returns, with the segments splitMessage gives, and
\* every segment of a non-empty text is non-empty.
C39_SplitterTerminates ==
    /\ [][(probe.pc = "loop" /\ probe'.pc = "loop")
             => Len(probe'.remaining) < Len(probe.remaining)]_vars
    /\ [](probe.text # <<>>
             => \A j \in 1..Len(probe.parts) : probe.parts[j] # <<>>)
    /\ [](probe.pc = "returned"
             => probe.parts = splitMessage(probe.text, probe.maxLength))
    /\ <>(probe.pc = "returned")

\* A call with limit 1 has returned three segments of a text of full
\* length, passing over its whitespace.
C39_Witness ==
    /\ probe.pc = "returned"
    /\ probe.maxLength = 1
    /\ Len(probe.parts) = 3
    /\ Len(probe.text) = MaxLen
    /\ \E k \in 1..Len(probe.text) : probe.text[k] \in Whitespace

\* C33: at most one subscription to the event feed is active or pending at
\* any time: never two loops, never two calls or timers, never a loop next
\* to a pending call or timer; so every event the feed emits is handled
\* once.
C33_OneSubscription ==
    /\ probe.subscribing + probe.loops + probe.timers <= 1
    /\ probe.handled = probe.delivered

\* After two failures and retries a loop is running and has handled events.
C33_Witness ==
    /\ probe.retries >= 2
    /\ probe.loops = 1
    /\ probe.delivered >= 2

\* C32: in every reachable state every forward entry has its reverse entry
\* and its subscription: when session S maps to thread T, T maps to S and T
\* is subscribed.
C32_ForwardHasReverse ==
    \A s \in DOMAIN sessionToThread :
        /\ sessionToThread[s] \in DOMAIN threadToSession
        /\ threadToSession[sessionToThread[s]] = s
        /\ sessionToThread[s] \in subscribedThreads

\* A session is bound to the second thread created for it; the first one
\* keeps its reverse entry.
C32_Witness ==
    /\ sessionToThread # EmptyMap
    /\ Cardinality(DOMAIN threadToSession) = 2
    /\ subscribedThreads = DOMAIN threadToSession

\* C34: deletion is not undone by a mirror attempt in flight: once the
\* deleted event of session S has been processed (S has lost the forward
\* mapping of its thread), S has no ledger entry in any later state and no
\* step gives S a forward mapping again.  The messages of a deleted session
\* cannot be fetched, so no attempt that starts after the deletion gets as
\* far as a thread or the ledger.
C34_DeletionNotUndone ==
    /\ [](\A t \in DOMAIN threadToSession :
             deletedProcessed(t)
                => threadToSession[t] \notin DOMAIN lastPostedContent)
    /\ [][\A t \in DOMAIN threadToSession :
             deletedProcessed(t)
                => threadToSession[t] \notin DOMAIN sessionToThread']_vars

\* A handler of the message endpoint starts for thread t.
messageStarted(t) ==
    \E i \in 1..MaxTasks :
        /\ tasks[i].kind = "free"
        /\ tasks'[i].kind = "message"
        /\ tasks'[i].thread = t
        /\ \A j \in 1..MaxTasks \ {i} : tasks'[j] = tasks[j]

\* A step of a handler of the message endpoint that sends.
messageSend(i) ==
    \E ok \in BOOLEAN :
        SyncMessageSendUser(i, ok) \/ SyncMessageSendAssistant(i, ok)

\* Thread t holds a unit the message endpoint posted.
hasMessageUnit(t) ==
    \E unit \in DOMAIN posts[t] : unit.via = "message" /\ posts[t][unit] > 0

\* C31: POST /sync/message posts to the threadId given, or without one to
\* the thread bound to the sessionId at that moment; with neither (no
\* threadId, and the sessionId absent or unbound) it answers with the error
\* status, starts nothing and posts nothing.  What a started handler posts
\* goes into its target thread only.
C31_MessageTarget ==
    /\ [][\A sessionId \in MessageSessions, threadId \in MessageThreads,
             u \in MessageUserTexts, a \in AsstTexts :
             SyncMessageRequest(sessionId, threadId, u, a)
                => /\ posts' = posts
                   /\ IF threadId # 0
                      THEN messageStarted(threadId)
                      ELSE IF sessionId # None
                              /\ sessionId \in DOMAIN sessionToThread
                      THEN messageStarted(sessionToThread[sessionId])
                      ELSE /\ tasks' = tasks
                           /\ probe'.status = 400]_vars
    /\ [][\A i \in 1..MaxTasks :
             messageSend(i)
                => /\ DOMAIN posts' = DOMAIN posts
                   /\ \A t \in DOMAIN posts \ {tasks[i].thread} :
                         posts'[t] = posts[t]]_vars

\* A request was rejected after the endpoint has posted into the thread of
\* a bound session.
C31_Witness ==
    /\ probe.asked
    /\ probe.status = 400
    /\ sessionToThread # EmptyMap
    /\ \E t \in DOMAIN posts : hasMessageUnit(t)

\* A step of the message endpoint.
messageStep ==
    \/ \E sessionId \in MessageSessions, threadId \in MessageThreads,
          u \in MessageUserTexts, a \in AsstTexts :
          SyncMessageRequest(sessionId, threadId, u, a)
    \/ \E i \in 1..MaxTasks, ok \in BOOLEAN : SyncMessageFetch(i, ok)
    \/ \E i \in 1..MaxTasks : messageSend(i)

\* The ledger entry of session s is written by the step.
ledgerWritten(s) ==
    /\ s \in DOMAIN lastPostedContent'
    /\ \/ s \notin DOMAIN lastPostedContent
       \/ lastPostedContent'[s] # lastPostedContent[s]

\* C35: no step of POST /sync/message changes the registry, the ledger or
\* the provenance set, whatever the outcome of the post; a ledger entry is
\* written only by the step that ends a mirror attempt of the consumer for
\* that session.
C35_MessageFrame ==
    /\ [][messageStep
             => UNCHANGED <<sessionToThread, threadToSession,
                            subscribedThreads, lastPostedContent,
                            discordInitiatedSessions>>]_vars
    /\ [][\A s \in Sessions :
             ledgerWritten(s)
                => \E i \in 1..MaxTasks :
                      /\ tasks[i].kind = "idle"
                      /\ tasks[i].sid = s
                      /\ tasks'[i] = FreeTask]_vars

\* The endpoint answered a failed post, after one of its units reached a
\* thread, while the ledger holds an entry of the consumer.
C35_Witness ==
    /\ probe.asked
    /\ probe.status = 500
    /\ lastPostedContent # EmptyMap
    /\ \E t \in DOMAIN posts : hasMessageUnit(t)

\* C36: in every reachable state no session of the provenance set has a
\* forward registry mapping: a session created from the chat side is never
\* bound to a mirror thread, by the consumer or by POST /sync/session.
C36_MarkedNeverBound ==
    \A s \in discordInitiatedSessions : s \notin DOMAIN sessionToThread

\* The author passes the authorization check as the bridge is configured.
passes(userId) ==
    \E okMember \in BOOLEAN, okRoles \in BOOLEAN :
        LET auth == checkUserAuthorized(userId, okMember, okRoles)
        IN  auth.authorized /\ ~auth.isFirstUser

\* The handler in slot i forwards, or is about to forward, a message of a
\* thread to the backend.
forwards(i) == tasks[i].kind \in {"create", "reply"} /\ tasks[i].pc # "auth"

\* The texts of the units of a thread.
postedTexts(t) == {unit.text : unit \in DOMAIN posts[t]}

\* C37: a message whose author is a bot is dropped at the first line of
\* messageCreate: it starts no handler and changes nothing, whatever its
\* thread and text, the texts the bridge posted itself included; so every
\* handler in flight, and every forward to the backend, is for a message of
\* an author who is not a bot.
C37_BotNeverForwarded ==
    /\ [](\A i \in 1..MaxTasks : tasks[i].userId \notin Bots)
    /\ [][\A author \in Bots, channel \in DOMAIN posts :
             \A content \in postedTexts(channel), mentioned \in BOOLEAN :
                MessageCreate(author, channel, content, mentioned, FALSE)
                => UNCHANGED <<consumer, sessionToThread, threadToSession,
                               subscribedThreads, lastPostedContent,
                               discordInitiatedSessions, userSessions,
                               backend, posts, tasks>>]_vars

\* The answer to a forwarded message was posted into a bound thread, its
\* arrival as a message of the bot was dropped, and no handler is running.
C37_Witness ==
    /\ probe.gate = "bot"
    /\ \A i \in 1..MaxTasks : tasks[i].kind = "free"
    /\ \E t \in DOMAIN threadToSession :
          \E unit \in DOMAIN posts[t] :
             unit.via = "reply" /\ unit.label = "Assistant"

\* A step of the handler in slot i, of the given kind, for a message of a
\* bound thread; the restart after the first user, which ends every handler,
\* is not a step of the handler.
boundStep(i, kind) ==
    /\ tasks[i].kind = kind
    /\ tasks[i].thread \in DOMAIN threadToSession
    /\ tasks'[i] # tasks[i]
    /\ probe'.allowedUsers = probe.allowedUsers

\* C38: a message in a thread bound to session S reaches the backend only
\* for an author who passes the authorization check, and only under S: the
\* handler that forwards it carries S, it never becomes a handler of the
\* author's own session, and none of its steps touches the user sessions or
\* the provenance set.  A handler of an author who does not pass never gets
\* beyond the denial.
C38_BoundThreadForward ==
    /\ [](\A i \in 1..MaxTasks :
             /\ forwards(i) /\ tasks[i].pc \notin {"firstReply", "denyReply"}
                   => passes(tasks[i].userId)
             /\ tasks[i].kind = "reply"
                   => /\ tasks[i].thread \in DOMAIN threadToSession
                      /\ tasks[i].sid = threadToSession[tasks[i].thread])
    /\ [][\A i \in 1..MaxTasks :
             boundStep(i, "create")
                => /\ tasks'[i].kind \in {"create", "reply", "free"}
                   /\ UNCHANGED <<userSessions, discordInitiatedSessions>>]_vars
    /\ [][\A i \in 1..MaxTasks :
             boundStep(i, "reply")
                => /\ UNCHANGED <<userSessions, discordInitiatedSessions>>
                   /\ \A s \in Sessions \ {tasks[i].sid} :
                         backend'[s] = backend[s]]_vars

\* The author has a session of their own and their message in the thread of
\* another session was forwarded under that session: the answer is ready to
\* be posted.
C38_Witness ==
    \E i \in 1..MaxTasks :
        /\ tasks[i].kind = "reply"
        /\ tasks[i].pc = "sendResponse"
        /\ tasks[i].userId \in DOMAIN userSessions
        /\ userSessions[tasks[i].userId] # tasks[i].sid
        /\ probe.gate = "denied"

====
